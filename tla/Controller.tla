----------------------------- MODULE Controller -----------------------------
(***************************************************************************)
(* The controller of src/controlplane/controller and the worker processes  *)
(* of src/cmd/worker that register with it and send heartbeats.  Worker    *)
(* records and the index of workers live in the key/value cluster; the     *)
(* controller's own view, seen and lastseen, is lost when it restarts.     *)
(*                                                                         *)
(* A critical section of c.mu is one step, the call of kvclient it makes   *)
(* with the lock held included.  kvclient is used through what it promises *)
(* one caller: a Put is done, or fails having been done or not.  Time is   *)
(* what the code tells apart: a heartbeat is recent, or over 6 s old.      *)
(***************************************************************************)
EXTENDS Integers, FiniteSets, FiniteSetsExt

CONSTANTS
    Workers,        \* worker ids
    Infos,          \* what a process may report: [status, utils]
    Nil

\* Bounds.
CONSTANTS
    MaxStarts,      \* starts of worker processes
    MaxRestarts,    \* restarts of the controller
    MaxFailures     \* calls of kvclient that return an error

ASSUME ControllerAssumption ==
    /\ \A info \in Infos : /\ info.status \in {"idle", "busy", "offline"}
                           /\ info.utils \in SUBSET (0 .. 100)
    /\ MaxStarts \in Nat /\ MaxRestarts \in Nat /\ MaxFailures \in Nat
    /\ Nil \notin Infos /\ Nil \notin [id : Workers, info : Infos]

VARIABLES
    record, index,      \* KV: "worker/<id>" and "workers/index"
    seen,               \* the controller's set of workers
    lastseen,           \* [Workers -> {"none", "recent", "old"}]
    registering,        \* handlers of /workers/register, or late ones of a heartbeat, at work
    pick,               \* one request for /workers/best
    steady,             \* history: usable all the time since that request came
    process,            \* the state of each worker's process
    starts, restarts, failures

kvVars      == <<record, index>>
memory      == <<seen, lastseen>>
workerVars  == <<process, starts>>
vars == <<kvVars, memory, registering, pick, steady, workerVars, restarts, failures>>

-----------------------------------------------------------------------------
(* Calls of kvclient.                                                      *)

Fails == failures < MaxFailures /\ failures' = failures + 1
Works == UNCHANGED failures

\* saveIndexLocked with the set s; `err' tells whether it returned an error.
saveIndexLocked(s, err) ==
    \/ ~err /\ Works /\ index' = s
    \/ err /\ Fails /\ index' \in {s, index}

-----------------------------------------------------------------------------
(* Worker processes and their requests.                                    *)

\* A process starts and sends its registration.
Start(w) ==
    /\ process[w] = "down" /\ starts < MaxStarts
    /\ starts' = starts + 1
    /\ \E info \in Infos :
          registering' = registering \cup
                {[no |-> starts + 1, id |-> w, info |-> info, pc |-> "put"]}
    /\ process' = [process EXCEPT ![w] = "registering"]
    /\ UNCHANGED <<kvVars, memory, pick, restarts, failures>>

\* The process dies; a handler that works for it goes on, one of its heartbeat as well
\* that waits for c.mu.
Stop(w) ==
    /\ process[w] # "down"
    /\ process' = [process EXCEPT ![w] = "down"]
    /\ \/ UNCHANGED registering
       \/ /\ process[w] = "up"
          /\ registering' = registering \cup {[no |-> 0, id |-> w, pc |-> "heartbeat"]}
    /\ UNCHANGED <<kvVars, memory, pick, starts, restarts, failures>>

\* What the process does with the answer to its registration, if it is still that
\* process: an error is fatal.
Answered(h, state) ==
    /\ process' = IF process[h.id] = "registering"
                     /\ \A g \in registering : g.id = h.id => g.no <= h.no
                    THEN [process EXCEPT ![h.id] = state] ELSE process
    /\ UNCHANGED starts

\* RegisterWorker stores the record without holding c.mu.
RegisterPut(h) ==
    /\ h.pc = "put"
    /\ \/ /\ Works
          /\ record' = [record EXCEPT ![h.id] = h.info]
          /\ registering' = (registering \ {h}) \cup {[h EXCEPT !.pc = "index"]}
          /\ UNCHANGED workerVars
       \/ /\ Fails
          /\ record' \in {record, [record EXCEPT ![h.id] = h.info]}
          /\ registering' = registering \ {h}
          /\ Answered(h, "down")
    /\ UNCHANGED <<index, memory, pick, restarts>>

\* Both RegisterWorker and Heartbeat note the worker and save the index.
Noted(w, err) ==
    /\ seen' = seen \cup {w}
    /\ lastseen' = [lastseen EXCEPT ![w] = "recent"]
    /\ saveIndexLocked(seen', err)

RegisterIndex(h) ==
    /\ h.pc = "index"
    /\ \E err \in BOOLEAN :
          Noted(h.id, err) /\ Answered(h, IF err THEN "down" ELSE "up")
    /\ registering' = registering \ {h}
    /\ UNCHANGED <<record, pick, restarts>>

\* Mutant: the index is saved only when the worker is new.
HeartbeatQuiet(w) ==
    /\ process[w] = "up"
    /\ seen' = seen \cup {w}
    /\ lastseen' = [lastseen EXCEPT ![w] = "recent"]
    /\ UNCHANGED <<record, index, registering, pick, workerVars, restarts, failures>>

\* The worker only logs an error.  The info it sends is not stored.
Heartbeat(w) ==
    /\ process[w] = "up"
    /\ \E err \in BOOLEAN : Noted(w, err)
    /\ UNCHANGED <<record, registering, pick, workerVars, restarts>>

\* A heartbeat that gets c.mu when its process is gone, or replaced by another.
LateHeartbeat(h) ==
    /\ h.pc = "heartbeat"
    /\ \E err \in BOOLEAN : Noted(h.id, err)
    /\ registering' = registering \ {h}
    /\ UNCHANGED <<record, pick, workerVars, restarts>>

-----------------------------------------------------------------------------
(* The heartbeat checker.                                                  *)

\* No heartbeat for more than 6 s.
Age(w) ==
    /\ lastseen[w] = "recent"
    /\ lastseen' = [lastseen EXCEPT ![w] = "old"]
    /\ UNCHANGED <<kvVars, seen, registering, pick, workerVars, restarts, failures>>

Expired == {w \in Workers : lastseen[w] = "old"}

\* Mutant: delete(c.seen, id) is forgotten.
ForgetTimes == lastseen' = [w \in Workers |-> IF w \in Expired THEN "none" ELSE lastseen[w]]
               /\ UNCHANGED seen

Forget ==
    /\ seen' = seen \ Expired
    /\ lastseen' = [w \in Workers |-> IF w \in Expired THEN "none" ELSE lastseen[w]]

\* A tick of startHeartbeatChecker; an error of saveIndexLocked is ignored.
heartbeatChecker ==
    /\ Expired # {}
    /\ Forget
    /\ \E err \in BOOLEAN : saveIndexLocked(seen', err)
    /\ UNCHANGED <<record, registering, pick, workerVars, restarts>>

-----------------------------------------------------------------------------
(* PickBestWorker: loadIndex, one GetWorker per id, and the choice.        *)

\* No request is open.
Idle == [pc |-> "done", left |-> {}, workers |-> {}, missed |-> {}]

\* Mutant: the stored index is asked first.
loadIndexStored ==
    /\ pick.pc = "done" /\ Works
    /\ pick' = [Idle EXCEPT !.pc = "get", !.left = index]
    /\ seen' = seen \cup index
    /\ UNCHANGED <<kvVars, lastseen, registering, workerVars, restarts>>

\* loadIndex falls back to the stored index when nothing has been seen.  What it
\* finds there is seen from now on, without a time.
loadIndex ==
    /\ pick.pc = "done"
    /\ \/ /\ seen # {}
          /\ pick' = [Idle EXCEPT !.pc = "get", !.left = seen]
          /\ UNCHANGED <<seen, failures>>
       \/ /\ seen = {} /\ Works
          /\ pick' = [Idle EXCEPT !.pc = "get", !.left = index]
          /\ seen' = index
       \/ /\ seen = {} /\ Fails
          /\ pick' = Idle
          /\ UNCHANGED seen
    /\ UNCHANGED <<kvVars, lastseen, registering, workerVars, restarts>>

\* A worker whose record cannot be read is skipped.
GetWorker(w) ==
    /\ pick.pc = "get" /\ w \in pick.left
    /\ \/ /\ Works
          /\ pick' = [pick EXCEPT !.left = @ \ {w},
                                  !.workers = IF record[w] = Nil THEN @
                                              ELSE @ \cup {[id |-> w, info |-> record[w]]}]
       \/ /\ Fails
          /\ pick' = [pick EXCEPT !.left = @ \ {w}, !.missed = @ \cup {w}]
    /\ UNCHANGED <<kvVars, memory, registering, workerVars, restarts>>

workerLoadScore(info) ==
    IF info.status = "busy" THEN 1000 ELSE Max(info.utils \cup {0})

\* Those of `workers' that may be the answer: map order breaks ties.
pickLowestLoadWorker(workers) ==
    LET usable == {r \in workers : r.info.status # "offline"}
    IN  {r \in usable : \A q \in usable :
            workerLoadScore(r.info) <= workerLoadScore(q.info)}

\* What may be answered: the workers seen at this moment come first, then any that was
\* listed; Nil is "no available worker".
Answers ==
    LET first  == pickLowestLoadWorker({r \in pick.workers : r.id \in seen})
        second == pickLowestLoadWorker(pick.workers)
        best   == IF first # {} THEN first ELSE second
    IN  IF best = {} THEN {Nil} ELSE best

PickBestWorker(best) ==
    /\ pick.pc = "get" /\ pick.left = {}
    /\ best \in Answers
    /\ pick' = Idle
    /\ UNCHANGED <<kvVars, memory, registering, workerVars, restarts, failures>>

-----------------------------------------------------------------------------

\* The controller stops and starts again; open requests fail.
New ==
    /\ restarts < MaxRestarts
    /\ restarts' = restarts + 1
    /\ seen' = {} /\ lastseen' = [w \in Workers |-> "none"]
    /\ registering' = {}
    /\ pick' = Idle
    /\ process' = [w \in Workers |-> IF process[w] = "registering" THEN "down" ELSE process[w]]
    /\ UNCHANGED <<kvVars, starts, failures>>

\* Records that can be the answer.
Usable == {r \in [id : Workers, info : Infos] :
              r.id \in seen /\ record[r.id] = r.info /\ r.info.status # "offline"}

Init ==
    /\ record = [w \in Workers |-> Nil] /\ index = {}
    /\ seen = {} /\ lastseen = [w \in Workers |-> "none"]
    /\ registering = {}
    /\ pick = Idle
    /\ steady = {}
    /\ process = [w \in Workers |-> "down"]
    /\ starts = 0 /\ restarts = 0 /\ failures = 0

Step ==
    \/ \E w \in Workers : Start(w) \/ Stop(w) \/ Heartbeat(w) \/ Age(w) \/ GetWorker(w)
    \/ \E h \in registering : RegisterPut(h) \/ RegisterIndex(h) \/ LateHeartbeat(h)
    \/ \E best \in Answers : PickBestWorker(best)
    \/ heartbeatChecker \/ loadIndex \/ New

\* What of that stays usable from loadIndex to the end of the request.
Watch == steady' = IF pick'.pc = "done" THEN {}
                   ELSE IF pick.pc = "done" THEN Usable' ELSE steady \cap Usable'

Next == Step /\ Watch

Spec == Init /\ [][Next]_vars

\* The checker's ticker and the workers' heartbeat loops run, requests are worked on,
\* and time passes for a worker that is down.
Fairness ==
    /\ WF_vars(heartbeatChecker /\ Watch)
    /\ WF_vars((\E h \in registering : RegisterPut(h) \/ RegisterIndex(h) \/ LateHeartbeat(h))
               /\ Watch)
    /\ \A w \in Workers : /\ WF_vars(Heartbeat(w) /\ Watch)
                          /\ WF_vars(process[w] = "down" /\ Age(w) /\ Watch)

-----------------------------------------------------------------------------
(* Properties.                                                             *)

\* PickBestWorker "returns the alive worker with lowest GPU utilization (idle
\* preferred)": a worker that is usable during the whole request, and whose record
\* could be read, is returned or one with no more load is, although the list is made,
\* the records are read and the choice is made in separate critical sections.
BestOfSteady ==
    [][\A best \in Answers : PickBestWorker(best) =>
          \A r \in steady : r.id \notin pick.missed =>
              best # Nil /\ workerLoadScore(best.info) <= workerLoadScore(r.info)]_vars

\* The heartbeats of a running worker bring it back into the stored index, whatever a
\* restarted controller or a failed save left out (Heartbeat, saveIndexLocked), so that
\* the next controller finds it and its record.
LiveWorkersStored ==
    \A w \in Workers :
        process[w] = "up" ~> process[w] # "up" \/ (w \in index /\ record[w] # Nil)

\* A worker whose process is gone, and whose last sign of life the controller knows,
\* is no longer seen after a while (startHeartbeatChecker), also when a registration
\* on its behalf is still at work.
ExpiredLeave ==
    \A w \in Workers :
        process[w] = "down" /\ lastseen[w] # "none" ~> process[w] # "down" \/ w \notin seen
=============================================================================
