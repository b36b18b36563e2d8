--------------------------- MODULE GatewayProofs ----------------------------
(***************************************************************************)
(* For any requests, workers, goroutines and capacities: a user who gets a *)
(* reply gets a computed one, and a request is never lost or doubled on    *)
(* its way through the gateway.                                            *)
(***************************************************************************)
EXTENDS Gateway, FiniteSetTheorems, TLAPS

\* What SMT may take for a step, in seconds.
USE SMTT(60), Z3T(60)

\* A job in the dispatch layer has a worker; one in the connection layer may not yet.
Job == [job : Requests, worker : Workers]
Picking == [job : Requests, worker : Workers \cup {Nil}]

PoolTypeOK ==
    /\ queue \in [Workers -> Seq(Requests)]
    /\ gpu \in [Workers -> [Gpus -> Requests \cup {Nil}]]
    /\ submit \in [Requests -> {Nil, "sent", "enqueuing", "waiting"} \cup Results]
    /\ done \in [Requests -> Results \cup {Nil}]

GatewayTypeOK ==
    /\ chat \in [Requests -> {"new", "waiting", "overloaded"} \cup Results]
    /\ connJobs \in Seq(Requests)
    /\ dispatchJobs \in Seq(Job)
    /\ conn \in [ConnWorkers -> Picking \cup {Nil}]
    /\ dispatch \in [DispatchWorkers -> Job \cup {Nil}]
    /\ resultCh \in [Requests -> Results \cup {Nil}]

\* The types of all variables.
Inv == PoolTypeOK /\ GatewayTypeOK

-----------------------------------------------------------------------------
(* Types.                                                                  *)

\* Sending on a channel puts the element behind those that are there.
LEMMA Appended ==
    ASSUME NEW S, NEW s \in Seq(S), NEW e \in S
    PROVE  /\ Append(s, e) \in Seq(S) /\ Len(Append(s, e)) = Len(s) + 1
           /\ \A k \in 1 .. Len(s) : Append(s, e)[k] = s[k]
           /\ Append(s, e)[Len(s) + 1] = e
OBVIOUS

\* The steps of the workers (handleChat, Submit, gpuLoop) keep the workers' types.
LEMMA PoolStepTypes == Inv /\ PoolStep => PoolTypeOK'
<1> SUFFICES ASSUME Inv, PoolStep PROVE PoolTypeOK'
  BY Zenon
<1> USE DEF Inv, PoolTypeOK, Results
<1>1. ASSUME NEW r \in Requests, handleChat(r) PROVE PoolTypeOK'
  BY <1>1, Zenon DEF handleChat
<1>2. ASSUME NEW r \in Requests, Submit(r) PROVE PoolTypeOK'
  <2>1. CASE Enqueue(r)
    <3>1. ASSUME NEW w \in Workers PROVE queue'[w] \in Seq(Requests)
      BY <2>1, Appended, Zenon DEF Enqueue
    <3> QED
      BY <2>1, <3>1, Zenon DEF Enqueue
  <2>2. CASE EnqueueTimeout(r) \/ ContextDone(r)
    BY <2>2, Zenon DEF EnqueueTimeout, ContextDone
  <2>3. CASE Receive(r)
    BY <2>3, Zenon DEF Receive
  <2> QED
    BY <1>2, <2>1, <2>2, <2>3, Zenon DEF Submit
<1>3. ASSUME NEW w \in Workers, NEW g \in Gpus, gpuLoop(w, g) PROVE PoolTypeOK'
  <2>1. CASE Take(w, g)
    BY <2>1 DEF Take
  <2>2. CASE Generate(w, g)
    BY <2>2, Zenon DEF Generate
  <2> QED
    BY <1>3, <2>1, <2>2, Zenon DEF gpuLoop
<1> QED
  BY <1>1, <1>2, <1>3, Zenon DEF PoolStep

\* Every step keeps the types.
LEMMA StepTypes == Inv /\ [Next]_vars => Inv'
<1> SUFFICES ASSUME Inv, [Next]_vars PROVE Inv'
  BY Zenon
<1> USE DEF Inv
<1>1. ASSUME NEW r \in Requests, HandleChat(r) \/ Respond(r) PROVE Inv'
  <2>1. PoolTypeOK'
    BY <1>1, Zenon DEF HandleChat, Respond, PoolTypeOK, poolVars
  <2>2. CASE HandleChat(r)
    <3>1. connJobs' \in Seq(Requests)
      <4>1. connJobs \in Seq(Requests)
        BY Zenon DEF GatewayTypeOK
      <4>2. Append(connJobs, r) \in Seq(Requests)
        BY ONLY r \in Requests, <4>1, Appended
      <4> QED
        BY <2>2, <4>1, <4>2, Zenon DEF HandleChat
    <3> QED
      BY <2>1, <2>2, <3>1, Zenon DEF HandleChat, GatewayTypeOK
  <2>3. CASE Respond(r)
    BY <2>1, <2>3, Zenon DEF Respond, GatewayTypeOK
  <2> QED
    BY <1>1, <2>2, <2>3, Zenon
<1>2. ASSUME NEW c \in ConnWorkers, connWorker(c) PROVE Inv'
  <2>1. PoolTypeOK'
    BY <1>2, Zenon DEF connWorker, connTake, pickWorker, enqueueDispatch, PoolTypeOK, poolVars
  <2>2. CASE connTake(c)
    BY <2>1, <2>2 DEF connTake, GatewayTypeOK, Picking
  <2>3. CASE pickWorker(c)
    BY <2>1, <2>3 DEF pickWorker, Send, GatewayTypeOK, Picking, Results
  <2>4. CASE enqueueDispatch(c)
    <3>1. conn[c] \in Job
      BY <2>4, Zenon DEF enqueueDispatch, GatewayTypeOK, Picking, Job
    <3>2. dispatchJobs' \in Seq(Job)
      <4>1. dispatchJobs \in Seq(Job)
        BY Zenon DEF GatewayTypeOK
      <4>2. Append(dispatchJobs, conn[c]) \in Seq(Job)
        BY ONLY <3>1, <4>1, Appended
      <4> QED
        BY <2>4, <4>1, <4>2, Zenon DEF enqueueDispatch
    <3>3. resultCh' \in [Requests -> Results \cup {Nil}]
      BY <2>4, Zenon DEF enqueueDispatch, Send, GatewayTypeOK, Results
    <3> QED
      BY <2>1, <2>4, <3>2, <3>3, Zenon DEF enqueueDispatch, GatewayTypeOK
  <2> QED
    BY <1>2, <2>2, <2>3, <2>4, Zenon DEF connWorker
<1>3. ASSUME NEW d \in DispatchWorkers, dispatchWorker(d) PROVE Inv'
  <2>1. CASE dispatchTake(d)
    <3>1. Head(dispatchJobs) \in Job /\ Tail(dispatchJobs) \in Seq(Job)
      BY <2>1 DEF dispatchTake, GatewayTypeOK
    <3>2. PoolTypeOK'
      BY <2>1, Zenon DEF dispatchTake, Sent, PoolTypeOK
    <3> QED
      BY <2>1, <3>1, <3>2, Zenon DEF dispatchTake, GatewayTypeOK
  <2>2. CASE forwardToWorker(d)
    <3>1. dispatch[d] \in Job /\ dispatch[d].job \in Requests
      BY <2>2, Zenon DEF forwardToWorker, GatewayTypeOK, Job
    <3>2. PoolTypeOK'
      BY <2>2, Zenon DEF forwardToWorker, PoolTypeOK, poolVars
    <3> QED
      BY <2>2, <3>1, <3>2, Zenon DEF forwardToWorker, Finished, Send, GatewayTypeOK, Results
  <2> QED
    BY <1>3, <2>1, <2>2, Zenon DEF dispatchWorker
<1>4. ASSUME PoolStep, UNCHANGED gatewayVars PROVE Inv'
  BY <1>4, PoolStepTypes, Zenon DEF GatewayTypeOK, gatewayVars
<1>5. ASSUME NEW w \in Workers, WorkerCrash(w) PROVE Inv'
  <2>1. PoolTypeOK'
    BY <1>5 DEF WorkerCrash, Crash, PoolTypeOK, Results
  <2> QED
    BY <1>5, <2>1, Zenon DEF WorkerCrash, GatewayTypeOK
<1>6. ASSUME UNCHANGED vars PROVE Inv'
  BY <1>6, Zenon DEF vars, poolVars, gatewayVars, PoolTypeOK, GatewayTypeOK
<1> QED
  BY <1>1, <1>2, <1>3, <1>4, <1>5, <1>6, Zenon DEF Next

\* The initial state, with empty channels and idle goroutines, is well-typed.
LEMMA InitTypes == Init => Inv
BY DEF Init, PoolInit, Inv, PoolTypeOK, GatewayTypeOK

-----------------------------------------------------------------------------
(* Replies.                                                                *)

\* Wherever a reply is on its way to the user, a GPU has computed it.
RepliesComputed ==
    \A r \in Requests :
        "reply" \in {done[r], submit[r], resultCh[r], chat[r]} => r \in computed

\* No step makes a reply up: Generate computes it, and the others hand it on.
LEMMA RepliesStep == Inv /\ RepliesComputed /\ [Next]_vars => RepliesComputed'
<1> SUFFICES ASSUME Inv, RepliesComputed, [Next]_vars PROVE RepliesComputed'
  BY Zenon
<1> USE DEF Inv, RepliesComputed
<1>1. ASSUME NEW r \in Requests, HandleChat(r) \/ Respond(r) PROVE RepliesComputed'
  <2>1. CASE HandleChat(r)
    BY <2>1, Zenon DEF HandleChat, GatewayTypeOK, poolVars
  <2>2. CASE Respond(r)
    BY <2>2, NilAssumption, Zenon DEF Respond, GatewayTypeOK, poolVars, Results
  <2> QED
    BY <1>1, <2>1, <2>2, Zenon
<1>2. ASSUME NEW c \in ConnWorkers, connWorker(c) PROVE RepliesComputed'
  BY <1>2, Zenon DEF connWorker, connTake, pickWorker, enqueueDispatch, Send, GatewayTypeOK, poolVars
<1>3. ASSUME NEW d \in DispatchWorkers, dispatchWorker(d) PROVE RepliesComputed'
  <2>1. CASE dispatchTake(d)
    BY <2>1, Zenon DEF dispatchTake, Sent, PoolTypeOK
  <2>2. CASE forwardToWorker(d)
    <3>1. dispatch[d].job \in Requests
      BY <2>2, Zenon DEF forwardToWorker, GatewayTypeOK, Job
    <3> QED
      BY <2>2, <3>1, Zenon DEF forwardToWorker, Finished, Send, GatewayTypeOK, poolVars
  <2> QED
    BY <1>3, <2>1, <2>2, Zenon DEF dispatchWorker
<1>4. ASSUME PoolStep, UNCHANGED gatewayVars PROVE RepliesComputed'
  <2>1. ASSUME NEW r \in Requests, handleChat(r) \/ Submit(r) PROVE RepliesComputed'
    <3>1. CASE Receive(r)
      BY <1>4, <3>1, NilAssumption, Zenon DEF gatewayVars, Receive, PoolTypeOK, Results
    <3>2. CASE handleChat(r) \/ Enqueue(r) \/ EnqueueTimeout(r) \/ ContextDone(r)
      BY <1>4, <3>2, Zenon DEF gatewayVars, handleChat, Enqueue, EnqueueTimeout, ContextDone, PoolTypeOK
    <3> QED
      BY <2>1, <3>1, <3>2, Zenon DEF Submit
  <2>2. ASSUME NEW w \in Workers, NEW g \in Gpus, Take(w, g) PROVE RepliesComputed'
    BY <1>4, <2>2, Zenon DEF gatewayVars, Take
  <2>3. ASSUME NEW w \in Workers, NEW g \in Gpus, Generate(w, g) PROVE RepliesComputed'
    <3>1. gpu[w][g] \in Requests
      BY <2>3 DEF Generate, PoolTypeOK
    <3> QED
      BY <1>4, <2>3, <3>1, Zenon DEF gatewayVars, Generate, PoolTypeOK
  <2> QED
    BY <1>4, <2>1, <2>2, <2>3, Zenon DEF PoolStep, gpuLoop
<1>5. ASSUME NEW w \in Workers, WorkerCrash(w) PROVE RepliesComputed'
  BY <1>5, NilAssumption, Zenon DEF WorkerCrash, Crash, Results
<1>6. ASSUME UNCHANGED vars PROVE RepliesComputed'
  BY <1>6, Zenon DEF vars, poolVars, gatewayVars
<1> QED
  BY <1>1, <1>2, <1>3, <1>4, <1>5, <1>6, Zenon DEF Next

\* ReplyIsComputed of Gateway: a user never gets a reply that no GPU has computed for that
\* request, over any crashes, timeouts and abandoned tasks (Submit, forwardToWorker).
THEOREM RepliesAreComputed == Spec => []ReplyIsComputed
<1>1. Init => Inv /\ RepliesComputed
  BY InitTypes, NilAssumption, Zenon DEF Init, PoolInit, RepliesComputed, Results
<1>2. Inv /\ RepliesComputed /\ [Next]_vars => (Inv /\ RepliesComputed)'
  BY StepTypes, RepliesStep, Zenon
<1>3. RepliesComputed => ReplyIsComputed
  BY Zenon DEF RepliesComputed, ReplyIsComputed
<1> QED
  BY <1>1, <1>2, <1>3, PTL DEF Spec
-----------------------------------------------------------------------------
(* One place.                                                              *)

\* What is in a channel of requests, and what is in a channel of jobs or held by the
\* goroutines of a layer.
Elems(q) == {q[k] : k \in DOMAIN q}
Held(f) == {i \in DOMAIN f : f[i] # Nil}
Jobs(f) == {f[i].job : i \in Held(f)}

\* Nothing is there twice.
Once(q) == \A k, l \in DOMAIN q : q[k] = q[l] => k = l
OnceEach(f) == \A i, j \in Held(f) : f[i].job = f[j].job => i = j

\* A request enters a channel of requests once if it was not there.
LEMMA EnterQueue ==
    ASSUME NEW S, NEW q \in Seq(S), NEW e \in S, e \notin Elems(q), Once(q)
    PROVE  Elems(Append(q, e)) = Elems(q) \cup {e} /\ Once(Append(q, e))
<1> DEFINE n == Len(q)
           a == Append(q, e)
<1>1. /\ n \in Nat /\ DOMAIN q = 1 .. n /\ DOMAIN a = 1 .. n + 1 /\ a[n + 1] = e
      /\ \A k \in 1 .. n : a[k] = q[k]
  OBVIOUS
<1> HIDE DEF n, a
<1>2. \A k \in 1 .. n + 1 : k \in 1 .. n \/ k = n + 1
  BY <1>1
<1>3. n + 1 \in DOMAIN a /\ \A k \in 1 .. n : k \in DOMAIN a
  BY <1>1
<1>4. Elems(a) = Elems(q) \cup {e}
  BY <1>1, <1>2, <1>3, Zenon DEF Elems
<1>5. Once(a)
  BY <1>1, <1>2, Zenon DEF Once, Elems
<1> QED
  BY <1>4, <1>5, Zenon DEF a

\* The request that a goroutine takes from a channel is there no more.
LEMMA LeaveQueue ==
    ASSUME NEW S, NEW q \in Seq(S), q # << >>, Once(q)
    PROVE  /\ Head(q) \in Elems(q)
           /\ Elems(Tail(q)) = Elems(q) \ {Head(q)} /\ Once(Tail(q))
<1> DEFINE n == Len(q)
           t == Tail(q)
<1>1. /\ n \in Nat \ {0} /\ DOMAIN q = 1 .. n /\ DOMAIN t = 1 .. n - 1 /\ Head(q) = q[1]
      /\ \A k \in 1 .. n - 1 : t[k] = q[k + 1]
  OBVIOUS
<1> HIDE DEF n, t
<1>2. \A k \in 1 .. n - 1 : k + 1 \in 1 .. n /\ k + 1 # 1
  BY <1>1
<1>3. \A k \in 1 .. n : k = 1 \/ (k - 1 \in 1 .. n - 1 /\ (k - 1) + 1 = k)
  BY <1>1
<1>4. 1 \in 1 .. n
  BY <1>1
<1>5. ASSUME NEW x PROVE x \in Elems(t) <=> x \in Elems(q) /\ x # Head(q)
  <2>1. ASSUME x \in Elems(t) PROVE x \in Elems(q) /\ x # Head(q)
    <3>1. PICK k \in 1 .. n - 1 : x = t[k]
      BY <1>1, <2>1, Zenon DEF Elems
    <3>2. k + 1 \in DOMAIN q /\ 1 \in DOMAIN q /\ x = q[k + 1] /\ k + 1 # 1
      BY <1>1, <1>2, <1>4, <3>1, Zenon
    <3> QED
      BY <1>1, <3>2, Zenon DEF Elems, Once
  <2>2. ASSUME x \in Elems(q), x # Head(q) PROVE x \in Elems(t)
    <3>1. PICK k \in 1 .. n : x = q[k]
      BY <1>1, <2>2, Zenon DEF Elems
    <3>2. k - 1 \in DOMAIN t /\ x = t[k - 1]
      BY <1>1, <1>3, <2>2, <3>1, Zenon
    <3> QED
      BY <3>2, Zenon DEF Elems
  <2> QED
    BY <2>1, <2>2, Zenon
<1>6. Once(t)
  <2> SUFFICES ASSUME NEW k \in 1 .. n - 1, NEW l \in 1 .. n - 1, t[k] = t[l] PROVE k = l
    BY <1>1, Zenon DEF Once
  <2>1. k + 1 \in DOMAIN q /\ l + 1 \in DOMAIN q /\ q[k + 1] = q[l + 1]
    BY <1>1, <1>2, Zenon
  <2>2. k + 1 = l + 1
    BY <2>1, Zenon DEF Once
  <2> QED
    BY <2>2
<1> QED
  BY <1>1, <1>4, <1>5, <1>6, Zenon DEF t, Elems

\* A job enters a channel of jobs, and its request once if it was not there.
LEMMA EnterJobs ==
    ASSUME NEW S, NEW q \in Seq(S), Nil \notin S, NEW e \in S, e.job \notin Jobs(q), OnceEach(q)
    PROVE  Jobs(Append(q, e)) = Jobs(q) \cup {e.job} /\ OnceEach(Append(q, e))
<1> DEFINE n == Len(q)
           a == Append(q, e)
<1>1. /\ n \in Nat /\ DOMAIN q = 1 .. n /\ DOMAIN a = 1 .. n + 1 /\ a[n + 1] = e
      /\ \A k \in 1 .. n : a[k] = q[k]
  OBVIOUS
<1>2. \A k \in 1 .. n : q[k] \in S
  OBVIOUS
<1> HIDE DEF n, a
<1>3. \A k \in 1 .. n + 1 : k \in 1 .. n \/ k = n + 1
  BY <1>1
<1>4. n + 1 \in 1 .. n + 1 /\ \A k \in 1 .. n : k \in 1 .. n + 1
  BY <1>1
<1>5. Held(a) = 1 .. n + 1 /\ Held(q) = 1 .. n
  BY <1>1, <1>2, <1>3, Zenon DEF Held
<1>6. Jobs(a) = Jobs(q) \cup {e.job}
  BY <1>1, <1>3, <1>4, <1>5, Zenon DEF Jobs
<1>7. OnceEach(a)
  BY <1>1, <1>3, <1>5 DEF OnceEach, Jobs
<1> QED
  BY <1>6, <1>7, Zenon DEF a

\* The job that a goroutine takes from a channel of jobs is there no more.
LEMMA LeaveJobs ==
    ASSUME NEW S, NEW q \in Seq(S), Nil \notin S, q # << >>, OnceEach(q)
    PROVE  /\ Head(q).job \in Jobs(q)
           /\ Jobs(Tail(q)) = Jobs(q) \ {Head(q).job} /\ OnceEach(Tail(q))
<1> DEFINE n == Len(q)
           t == Tail(q)
<1>1. /\ n \in Nat \ {0} /\ DOMAIN q = 1 .. n /\ DOMAIN t = 1 .. n - 1 /\ Head(q) = q[1]
      /\ \A k \in 1 .. n - 1 : t[k] = q[k + 1]
  OBVIOUS
<1>2. \A k \in 1 .. n : q[k] \in S
  OBVIOUS
<1> HIDE DEF n, t
<1>3. \A k \in 1 .. n - 1 : k + 1 \in 1 .. n /\ k + 1 # 1
  BY <1>1
<1>4. \A k \in 1 .. n : k = 1 \/ (k - 1 \in 1 .. n - 1 /\ (k - 1) + 1 = k)
  BY <1>1
<1>5. 1 \in 1 .. n
  BY <1>1
<1>6. Held(t) = 1 .. n - 1 /\ Held(q) = 1 .. n
  BY <1>1, <1>2, <1>3, ZenonT(60) DEF Held
<1>7. ASSUME NEW x PROVE x \in Jobs(t) <=> x \in Jobs(q) /\ x # Head(q).job
  <2>1. ASSUME x \in Jobs(t) PROVE x \in Jobs(q) /\ x # Head(q).job
    <3>1. PICK k \in 1 .. n - 1 : x = t[k].job
      BY <1>6, <2>1, Zenon DEF Jobs
    <3>2. k + 1 \in Held(q) /\ 1 \in Held(q) /\ x = q[k + 1].job /\ k + 1 # 1
      BY <1>1, <1>3, <1>5, <1>6, <3>1, Zenon
    <3> QED
      BY <1>1, <3>2, Zenon DEF Jobs, OnceEach
  <2>2. ASSUME x \in Jobs(q), x # Head(q).job PROVE x \in Jobs(t)
    <3>1. PICK k \in 1 .. n : x = q[k].job
      BY <1>6, <2>2, Zenon DEF Jobs
    <3>2. k - 1 \in Held(t) /\ x = t[k - 1].job
      BY <1>1, <1>4, <1>6, <2>2, <3>1, Zenon
    <3> QED
      BY <3>2, Zenon DEF Jobs
  <2> QED
    BY <2>1, <2>2, Zenon
<1>8. OnceEach(t)
  <2> SUFFICES ASSUME NEW k \in 1 .. n - 1, NEW l \in 1 .. n - 1, t[k].job = t[l].job PROVE k = l
    BY <1>6, Zenon DEF OnceEach
  <2>1. k + 1 = l + 1
    <3>1. k + 1 \in Held(q) /\ l + 1 \in Held(q) /\ q[k + 1].job = q[l + 1].job
      BY <1>1, <1>3, <1>6, Zenon
    <3> QED
      BY <3>1, Zenon DEF OnceEach
  <2> QED
    BY <2>1
<1> QED
  BY <1>1, <1>5, <1>6, <1>7, <1>8, Zenon DEF t, Jobs

\* A goroutine that was idle holds the job it takes, and the others hold theirs.
LEMMA Fill ==
    ASSUME NEW f, NEW i \in DOMAIN f, f = [j \in DOMAIN f |-> f[j]], f[i] = Nil,
           NEW x, x # Nil, x.job \notin Jobs(f), OnceEach(f)
    PROVE  Jobs([f EXCEPT ![i] = x]) = Jobs(f) \cup {x.job} /\ OnceEach([f EXCEPT ![i] = x])
<1> DEFINE g == [f EXCEPT ![i] = x]
<1>1. /\ DOMAIN g = DOMAIN f /\ g[i] = x
      /\ \A j \in DOMAIN f : j # i => g[j] = f[j]
  BY Zenon
<1> HIDE DEF g
<1>2. Held(g) = Held(f) \cup {i} /\ i \notin Held(f)
  BY <1>1 DEF Held
<1>3. \A j \in Held(f) : g[j] = f[j]
  BY <1>1, <1>2, Zenon DEF Held
<1>4. Jobs(g) = Jobs(f) \cup {x.job}
  BY <1>1, <1>2, <1>3 DEF Jobs
<1>5. OnceEach(g)
  BY <1>1, <1>2, <1>3 DEF OnceEach, Jobs
<1> QED
  BY <1>4, <1>5, Zenon DEF g

\* A goroutine that ends with its job holds none, and the others hold theirs.
LEMMA Clear ==
    ASSUME NEW f, NEW i \in DOMAIN f, f = [j \in DOMAIN f |-> f[j]], f[i] # Nil, OnceEach(f)
    PROVE  /\ f[i].job \in Jobs(f)
           /\ Jobs([f EXCEPT ![i] = Nil]) = Jobs(f) \ {f[i].job} /\ OnceEach([f EXCEPT ![i] = Nil])
<1> DEFINE g == [f EXCEPT ![i] = Nil]
<1>1. /\ DOMAIN g = DOMAIN f /\ g[i] = Nil
      /\ \A j \in DOMAIN f : j # i => g[j] = f[j]
  BY Zenon
<1> HIDE DEF g
<1>2. Held(g) = Held(f) \ {i} /\ i \in Held(f)
  BY <1>1, Zenon DEF Held
<1>3. \A j \in Held(g) : g[j] = f[j] /\ j \in Held(f) /\ j # i
  BY <1>1, <1>2, Zenon DEF Held
<1>4. Jobs(g) = Jobs(f) \ {f[i].job}
  BY <1>1, <1>2, <1>3 DEF Jobs, OnceEach
<1>5. OnceEach(g)
  BY <1>2, <1>3, Zenon DEF OnceEach
<1>6. f[i].job \in Jobs(f)
  BY <1>2, Zenon DEF Jobs
<1> QED
  BY <1>4, <1>5, <1>6, Zenon DEF g

-----------------------------------------------------------------------------

\* The requests whose result channel is full, and those whose user waits.
Full == {r \in Requests : resultCh[r] # Nil}
Waiting == {r \in Requests : chat[r] = "waiting"}

\* The five stages of a request have nothing in common and together make up w.
Stages(s1, s2, s3, s4, s5, w) ==
    /\ s1 \cap s2 = {} /\ s1 \cap s3 = {} /\ s1 \cap s4 = {} /\ s1 \cap s5 = {}
    /\ s2 \cap s3 = {} /\ s2 \cap s4 = {} /\ s2 \cap s5 = {}
    /\ s3 \cap s4 = {} /\ s3 \cap s5 = {} /\ s4 \cap s5 = {}
    /\ s1 \cup s2 \cup s3 \cup s4 \cup s5 = w

\* InOnePlace in an inductive form: the requests waiting are divided among the places, and
\* no place of a kind has a request twice.
Divided ==
    /\ Once(connJobs) /\ OnceEach(conn) /\ OnceEach(dispatchJobs) /\ OnceEach(dispatch)
    /\ Stages(Elems(connJobs), Jobs(conn), Jobs(dispatchJobs), Jobs(dispatch), Full, Waiting)

\* A result sent on resultCh fills the channel of that request only.
LEMMA Sending ==
    ASSUME Inv, NEW r \in Requests, NEW result \in Results, Send(r, result)
    PROVE  r \notin Full /\ Full' = Full \cup {r}
BY NilAssumption, Zenon DEF Inv, GatewayTypeOK, Send, Full

\* A connWorker that answers with an error.
LEMMA ConnGivesUp ==
    ASSUME Inv, Divided, NEW c \in ConnWorkers, conn[c] # Nil, conn[c].job \in Requests,
           Send(conn[c].job, "error"), conn' = [conn EXCEPT ![c] = Nil],
           UNCHANGED <<connJobs, dispatchJobs, dispatch, Waiting>>
    PROVE  Divided'
<1> DEFINE r == conn[c].job
<1>1. r \notin Full /\ Full' = Full \cup {r}
  BY Sending, Zenon DEF Results
<1>2. c \in DOMAIN conn /\ conn = [j \in DOMAIN conn |-> conn[j]]
  BY Zenon DEF Inv, GatewayTypeOK
<1>3. r \in Jobs(conn) /\ Jobs(conn') = Jobs(conn) \ {r} /\ OnceEach(conn')
  BY <1>2, Clear, Zenon DEF Divided
<1>4. Stages(Elems(connJobs), Jobs(conn) \ {r}, Jobs(dispatchJobs), Jobs(dispatch), Full \cup {r}, Waiting)
  BY <1>3, Zenon DEF Divided, Stages
<1> QED
  BY <1>1, <1>3, <1>4, Zenon DEF Divided

\* Every step moves a request from one place to the next, or moves none.
LEMMA DividedStep == Inv /\ Divided /\ [Next]_vars => Divided'
<1> SUFFICES ASSUME Inv, Divided, [Next]_vars PROVE Divided'
  BY Zenon
<1> DEFINE A == Elems(connJobs)
           B == Jobs(conn)
           C == Jobs(dispatchJobs)
           D == Jobs(dispatch)
<1>t. /\ connJobs \in Seq(Requests) /\ dispatchJobs \in Seq(Job)
      /\ conn \in [ConnWorkers -> Picking \cup {Nil}] /\ dispatch \in [DispatchWorkers -> Job \cup {Nil}]
      /\ chat \in [Requests -> {"new", "waiting", "overloaded"} \cup Results]
      /\ resultCh \in [Requests -> Results \cup {Nil}]
  BY Zenon DEF Inv, GatewayTypeOK
<1>n. Nil \notin Picking /\ Nil \notin Job /\ Nil \notin Results
  BY NilAssumption, Zenon DEF Picking, Job
<1>s. Stages(A, B, C, D, Full, Waiting)
  BY Zenon DEF Divided
<1>o. Once(connJobs) /\ OnceEach(conn) /\ OnceEach(dispatchJobs) /\ OnceEach(dispatch)
  BY Zenon DEF Divided
<1>1. ASSUME NEW r \in Requests, HandleChat(r) PROVE Divided'
  <2>1. r \notin Waiting
    BY <1>1, Zenon DEF HandleChat, Waiting
  <2>2. CASE UNCHANGED connJobs /\ chat' = [chat EXCEPT ![r] = "overloaded"]
    <3>1. UNCHANGED <<connJobs, conn, dispatchJobs, dispatch, Full>>
      BY <1>1, <2>2, Zenon DEF HandleChat, Full
    <3>2. Waiting' = Waiting
      BY <1>t, <2>1, <2>2, Zenon DEF Waiting
    <3> QED
      BY <1>s, <1>o, <3>1, <3>2, Zenon DEF Divided
  <2>3. CASE connJobs' = Append(connJobs, r) /\ chat' = [chat EXCEPT ![r] = "waiting"]
    <3>1. r \notin A /\ r \notin B /\ r \notin C /\ r \notin D /\ r \notin Full
      BY <1>s, <2>1, Zenon DEF Stages
    <3>2. Elems(connJobs') = A \cup {r} /\ Once(connJobs')
      BY <1>t, <1>o, <2>3, <3>1, EnterQueue
    <3>3. UNCHANGED <<conn, dispatchJobs, dispatch, Full>>
      BY <1>1, Zenon DEF HandleChat, Full
    <3>4. Waiting' = Waiting \cup {r}
      BY <1>t, <2>3, Zenon DEF Waiting
    <3>5. Stages(A \cup {r}, B, C, D, Full, Waiting \cup {r})
      BY <1>s, <3>1, Zenon DEF Stages
    <3> QED
      BY <1>o, <3>2, <3>3, <3>4, <3>5, Zenon DEF Divided
  <2> QED
    BY <1>1, <2>2, <2>3, Zenon DEF HandleChat
<1>2. ASSUME NEW r \in Requests, Respond(r) PROVE Divided'
  <2>1. UNCHANGED <<connJobs, conn, dispatchJobs, dispatch>>
    BY <1>2, Zenon DEF Respond
  <2>2. r \in Full /\ Full' = Full \ {r}
    BY <1>2, <1>t, Zenon DEF Respond, Full
  <2>3. Waiting' = Waiting \ {r}
    BY <1>2, <1>t, <1>n, Zenon DEF Respond, Waiting, Results
  <2>4. Stages(A, B, C, D, Full \ {r}, Waiting \ {r})
    BY <1>s, <2>2, Zenon DEF Stages
  <2> QED
    BY <1>o, <2>1, <2>2, <2>3, <2>4, Zenon DEF Divided
<1>3. ASSUME NEW c \in ConnWorkers, connTake(c) PROVE Divided'
  <2> DEFINE r == Head(connJobs)
             x == [job |-> r, worker |-> Nil]
  <2>1. connJobs # << >> /\ conn[c] = Nil /\ connJobs' = Tail(connJobs) /\ conn' = [conn EXCEPT ![c] = x]
    BY <1>3, Zenon DEF connTake
  <2>2. UNCHANGED <<dispatchJobs, dispatch, Full, Waiting>>
    BY <1>3, Zenon DEF connTake, Full, Waiting
  <2>3. r \in A /\ Elems(connJobs') = A \ {r} /\ Once(connJobs')
    BY <1>t, <1>o, <2>1, LeaveQueue, Zenon
  <2>4. r \in Requests /\ x \in Picking /\ x.job = r
    BY <1>t, <2>1 DEF Picking
  <2>5. x.job \notin B /\ x # Nil
    BY <1>s, <1>n, <2>3, <2>4, Zenon DEF Stages
  <2> HIDE DEF x, r
  <2>6. Jobs(conn') = B \cup {r} /\ OnceEach(conn')
    <3>1. c \in DOMAIN conn /\ conn = [j \in DOMAIN conn |-> conn[j]]
      BY <1>t, Zenon
    <3>2. /\ Jobs([conn EXCEPT ![c] = x]) = Jobs(conn) \cup {x.job}
          /\ OnceEach([conn EXCEPT ![c] = x])
      BY ONLY <1>o, <2>1, <2>5, <3>1, Fill, Zenon
    <3> QED
      BY <2>1, <2>4, <3>2, Zenon
  <2>7. Stages(A \ {r}, B \cup {r}, C, D, Full, Waiting)
    BY <1>s, <2>3, Zenon DEF Stages
  <2> QED
    BY <1>o, <2>2, <2>3, <2>6, <2>7, Zenon DEF Divided
<1>4. ASSUME NEW c \in ConnWorkers, pickWorker(c) PROVE Divided'
  <2>1. conn[c] # Nil /\ conn[c] \in Picking /\ conn[c].job \in Requests
    BY <1>4, <1>t, Zenon DEF pickWorker, Picking
  <2>2. UNCHANGED <<connJobs, dispatchJobs, dispatch, Waiting>>
    BY <1>4, Zenon DEF pickWorker, Waiting
  <2>3. ASSUME NEW w \in Workers, conn' = [conn EXCEPT ![c].worker = w], UNCHANGED resultCh PROVE Divided'
    <3>1. DOMAIN conn' = DOMAIN conn /\ \A j \in DOMAIN conn : j # c => conn'[j] = conn[j]
      BY <2>3, Zenon
    <3>2. c \in DOMAIN conn /\ conn'[c] \in Picking /\ conn'[c].job = conn[c].job
      BY <1>t, <2>1, <2>3, Zenon DEF Picking
    <3>3. Held(conn') = Held(conn) /\ \A j \in Held(conn) : conn'[j].job = conn[j].job
      BY <1>n, <2>1, <3>1, <3>2, Zenon DEF Held
    <3>4. Jobs(conn') = Jobs(conn) /\ OnceEach(conn')
      BY <1>o, <3>3 DEF Jobs, OnceEach
    <3> QED
      BY <1>o, <1>s, <2>2, <2>3, <3>4, Zenon DEF Divided, Full
  <2>4. ASSUME Send(conn[c].job, "error"), conn' = [conn EXCEPT ![c] = Nil] PROVE Divided'
    BY <1>o, <1>s, <1>t, <2>1, <2>2, <2>4, ConnGivesUp, Zenon
  <2> QED
    BY <1>4, <2>3, <2>4, Zenon DEF pickWorker
<1>5. ASSUME NEW c \in ConnWorkers, enqueueDispatch(c) PROVE Divided'
  <2>1. conn[c] \in Job /\ conn[c] # Nil /\ conn[c].job \in Requests
    BY <1>5, <1>t, Zenon DEF enqueueDispatch, Picking, Job
  <2>2. UNCHANGED <<connJobs, dispatch, Waiting>> /\ conn' = [conn EXCEPT ![c] = Nil]
    BY <1>5, Zenon DEF enqueueDispatch, Waiting
  <2>3. CASE dispatchJobs' = Append(dispatchJobs, conn[c]) /\ UNCHANGED resultCh
    <3> DEFINE r == conn[c].job
    <3>1. c \in DOMAIN conn /\ conn = [j \in DOMAIN conn |-> conn[j]]
      BY <1>t, Zenon
    <3>2. r \in B /\ Jobs(conn') = B \ {r} /\ OnceEach(conn')
      BY <1>o, <2>1, <2>2, <3>1, Clear, Zenon
    <3>3. r \notin C
      BY <1>s, <3>2, Zenon DEF Stages
    <3>4. Jobs(dispatchJobs') = C \cup {r} /\ OnceEach(dispatchJobs')
      BY <1>t, <1>n, <1>o, <2>1, <2>3, <3>3, EnterJobs
    <3>5. Stages(A, B \ {r}, C \cup {r}, D, Full, Waiting)
      BY <1>s, <3>2, Zenon DEF Stages
    <3> QED
      BY <1>o, <2>2, <2>3, <3>2, <3>4, <3>5, Zenon DEF Divided, Full
  <2>4. CASE Send(conn[c].job, "error") /\ UNCHANGED dispatchJobs
    BY <1>o, <1>s, <1>t, <2>1, <2>2, <2>4, ConnGivesUp, Zenon
  <2> QED
    BY <1>5, <2>3, <2>4, Zenon DEF enqueueDispatch
<1>6. ASSUME NEW d \in DispatchWorkers, dispatchTake(d) PROVE Divided'
  <2> DEFINE x == Head(dispatchJobs)
  <2>1. /\ dispatchJobs # << >> /\ dispatch[d] = Nil
        /\ dispatchJobs' = Tail(dispatchJobs) /\ dispatch' = [dispatch EXCEPT ![d] = x]
    BY <1>6, Zenon DEF dispatchTake
  <2>2. UNCHANGED <<connJobs, conn, Full, Waiting>>
    BY <1>6, Zenon DEF dispatchTake, Full, Waiting
  <2>3. x \in Job
    BY <1>t, <2>1
  <2>4. x.job \in C /\ Jobs(dispatchJobs') = C \ {x.job} /\ OnceEach(dispatchJobs')
    BY <1>t, <1>n, <1>o, <2>1, LeaveJobs, Zenon
  <2>5. x.job \notin D /\ x # Nil
    BY <1>s, <1>n, <2>3, <2>4, Zenon DEF Stages
  <2> HIDE DEF x
  <2>6. Jobs(dispatch') = D \cup {x.job} /\ OnceEach(dispatch')
    <3>1. d \in DOMAIN dispatch /\ dispatch = [j \in DOMAIN dispatch |-> dispatch[j]]
      BY <1>t, Zenon
    <3>2. /\ Jobs([dispatch EXCEPT ![d] = x]) = Jobs(dispatch) \cup {x.job}
          /\ OnceEach([dispatch EXCEPT ![d] = x])
      BY ONLY <1>o, <2>1, <2>5, <3>1, Fill, Zenon
    <3> QED
      BY <2>1, <3>2, Zenon
  <2>7. Stages(A, B, C \ {x.job}, D \cup {x.job}, Full, Waiting)
    BY <1>s, <2>4, Zenon DEF Stages
  <2> QED
    BY <1>o, <2>2, <2>4, <2>6, <2>7, Zenon DEF Divided
<1>7. ASSUME NEW d \in DispatchWorkers, forwardToWorker(d) PROVE Divided'
  <2> DEFINE r == dispatch[d].job
  <2>1. dispatch[d] # Nil /\ r \in Requests
    BY <1>7, <1>t, Zenon DEF forwardToWorker, Job
  <2>2. PICK result \in Results : Finished(d, result)
    BY <1>7, Zenon DEF forwardToWorker, Results
  <2>3. UNCHANGED <<connJobs, conn, dispatchJobs, Waiting>> /\ dispatch' = [dispatch EXCEPT ![d] = Nil]
    BY <2>2, Zenon DEF Finished, Waiting
  <2>4. r \notin Full /\ Full' = Full \cup {r}
    BY <2>1, <2>2, Sending, Zenon DEF Finished
  <2>5. r \in D /\ Jobs(dispatch') = D \ {r} /\ OnceEach(dispatch')
    <3>1. d \in DOMAIN dispatch /\ dispatch = [j \in DOMAIN dispatch |-> dispatch[j]]
      BY <1>t, Zenon
    <3> QED
      BY <1>o, <2>1, <2>3, <3>1, Clear, Zenon
  <2>6. Stages(A, B, C, D \ {r}, Full \cup {r}, Waiting)
    BY <1>s, <2>5, Zenon DEF Stages
  <2> QED
    BY <1>o, <2>3, <2>4, <2>5, <2>6, Zenon DEF Divided
<1>8. ASSUME UNCHANGED <<connJobs, conn, dispatchJobs, dispatch, resultCh, chat>> PROVE Divided'
  BY <1>8, Zenon DEF Divided, Full, Waiting
<1>9. ASSUME (PoolStep /\ UNCHANGED gatewayVars) \/ (\E w \in Workers : WorkerCrash(w)) \/ UNCHANGED vars
      PROVE  Divided'
  BY <1>8, <1>9, Zenon DEF gatewayVars, WorkerCrash, vars
<1> QED
  BY <1>1, <1>2, <1>3, <1>4, <1>5, <1>6, <1>7, <1>9, Zenon DEF Next, connWorker, dispatchWorker

\* What is on dispatchJobs is a job.
LEMMA JobsAreJobs == Inv => \A k \in DOMAIN dispatchJobs : dispatchJobs[k] # Nil
<1>1. Nil \notin Job
  BY NilAssumption, Zenon DEF Job
<1> QED
  BY <1>1 DEF Inv, GatewayTypeOK

\* Divided says of each request what InOnePlace says.
LEMMA OneEach == Inv /\ Divided => InOnePlace
<1> SUFFICES ASSUME Inv, Divided, NEW r \in Requests
             PROVE  Cardinality(Places(r)) = IF chat[r] = "waiting" THEN 1 ELSE 0
  BY Zenon DEF InOnePlace
<1> DEFINE QA == {<<"connJobs", k>> : k \in {k \in DOMAIN connJobs : connJobs[k] = r}}
           QB == {<<"conn", c>> : c \in {c \in ConnWorkers : conn[c] # Nil /\ conn[c].job = r}}
           QC == {<<"dispatchJobs", k>> : k \in {k \in DOMAIN dispatchJobs : dispatchJobs[k].job = r}}
           QD == {<<"dispatch", d>> : d \in {d \in DispatchWorkers : dispatch[d] # Nil /\ dispatch[d].job = r}}
           QE == IF resultCh[r] = Nil THEN {} ELSE {<<"resultCh", r>>}
<1>1. Places(r) = QA \cup QB \cup QC \cup QD \cup QE
  BY Zenon DEF Places
<1>2. r \notin Elems(connJobs) => QA = {}
  BY Zenon DEF Elems
<1>3. r \notin Jobs(conn) => QB = {}
  BY Zenon DEF Jobs, Held, Inv, GatewayTypeOK
<1>4. r \notin Jobs(dispatchJobs) => QC = {}
  <2>1. \A k \in DOMAIN dispatchJobs : dispatchJobs[k] # Nil
    BY JobsAreJobs, Zenon
  <2> QED
    BY <2>1, Zenon DEF Jobs, Held
<1>5. r \notin Jobs(dispatch) => QD = {}
  BY Zenon DEF Jobs, Held, Inv, GatewayTypeOK
<1>6. r \notin Full => QE = {}
  BY Zenon DEF Full
<1>7. ASSUME r \in Elems(connJobs) PROVE \E p : QA = {p}
  <2>1. PICK k \in DOMAIN connJobs : connJobs[k] = r
    BY <1>7, Zenon DEF Elems
  <2>2. {l \in DOMAIN connJobs : connJobs[l] = r} = {k}
    BY <2>1, Zenon DEF Divided, Once
  <2>3. QA = {<<"connJobs", k>>}
    BY <2>2, Zenon
  <2> QED
    BY <2>3, Zenon
<1>8. ASSUME r \in Jobs(conn) PROVE \E p : QB = {p}
  <2>1. PICK c \in Held(conn) : conn[c].job = r
    BY <1>8, Zenon DEF Jobs
  <2>2. {b \in ConnWorkers : conn[b] # Nil /\ conn[b].job = r} = {c}
    BY <2>1, Zenon DEF Divided, OnceEach, Held, Inv, GatewayTypeOK
  <2>3. QB = {<<"conn", c>>}
    BY <2>2, Zenon
  <2> QED
    BY <2>3, Zenon
<1>9. ASSUME r \in Jobs(dispatchJobs) PROVE \E p : QC = {p}
  <2>1. PICK k \in Held(dispatchJobs) : dispatchJobs[k].job = r
    BY <1>9, Zenon DEF Jobs
  <2>2. Held(dispatchJobs) = DOMAIN dispatchJobs
    BY JobsAreJobs, Zenon DEF Held
  <2>3. {l \in DOMAIN dispatchJobs : dispatchJobs[l].job = r} = {k}
    BY <2>1, <2>2, Zenon DEF Divided, OnceEach
  <2>4. QC = {<<"dispatchJobs", k>>}
    BY <2>3, Zenon
  <2> QED
    BY <2>4, Zenon
<1>10. ASSUME r \in Jobs(dispatch) PROVE \E p : QD = {p}
  <2>1. PICK d \in Held(dispatch) : dispatch[d].job = r
    BY <1>10, Zenon DEF Jobs
  <2>2. {b \in DispatchWorkers : dispatch[b] # Nil /\ dispatch[b].job = r} = {d}
    BY <2>1, Zenon DEF Divided, OnceEach, Held, Inv, GatewayTypeOK
  <2>3. QD = {<<"dispatch", d>>}
    BY <2>2, Zenon
  <2> QED
    BY <2>3, Zenon
<1>11. ASSUME r \in Full PROVE \E p : QE = {p}
  BY <1>11, Zenon DEF Full
<1> HIDE DEF QA, QB, QC, QD, QE
<1>12. CASE chat[r] = "waiting"
  <2>1. r \in Waiting
    BY <1>12, Zenon DEF Waiting
  <2>2. \E p : Places(r) = {p}
    <3>1. CASE r \in Elems(connJobs)
      BY <1>1, <1>3, <1>4, <1>5, <1>6, <1>7, <3>1, Zenon DEF Divided, Stages
    <3>2. CASE r \in Jobs(conn)
      BY <1>1, <1>2, <1>4, <1>5, <1>6, <1>8, <3>2, Zenon DEF Divided, Stages
    <3>3. CASE r \in Jobs(dispatchJobs)
      BY <1>1, <1>2, <1>3, <1>5, <1>6, <1>9, <3>3, Zenon DEF Divided, Stages
    <3>4. CASE r \in Jobs(dispatch)
      BY <1>1, <1>2, <1>3, <1>4, <1>6, <1>10, <3>4, Zenon DEF Divided, Stages
    <3>5. CASE r \in Full
      BY <1>1, <1>2, <1>3, <1>4, <1>5, <1>11, <3>5, Zenon DEF Divided, Stages
    <3> QED
      BY <2>1, <3>1, <3>2, <3>3, <3>4, <3>5, Zenon DEF Divided, Stages
  <2> QED
    BY <1>12, <2>2, FS_Singleton, Zenon
<1>13. CASE chat[r] # "waiting"
  <2>1. r \notin Waiting
    BY <1>13, Zenon DEF Waiting
  <2>2. Places(r) = {}
    BY <1>1, <1>2, <1>3, <1>4, <1>5, <1>6, <2>1, Zenon DEF Divided, Stages
  <2> QED
    BY <1>13, <2>2, FS_EmptySet, Zenon
<1> QED
  BY <1>12, <1>13, Zenon

\* InOnePlace of Gateway, for any number of requests and goroutines and any capacities:
\* a request that HandleChat waits for is in one place, and an answered one in none
\* (HandleChat, connWorker, dispatchWorker).
THEOREM AlwaysInOnePlace == Spec => []InOnePlace
<1>1. Init => Inv /\ Divided
  <2> SUFFICES ASSUME Init PROVE Divided
    BY InitTypes, Zenon
  <2>1. /\ DOMAIN connJobs = {} /\ Held(dispatchJobs) = {} /\ Held(conn) = {} /\ Held(dispatch) = {}
        /\ Full = {} /\ Waiting = {}
    BY DEF Init, Held, Full, Waiting
  <2> QED
    BY <2>1, Zenon DEF Divided, Once, OnceEach, Stages, Elems, Jobs
<1>2. Inv /\ Divided /\ [Next]_vars => (Inv /\ Divided)'
  BY StepTypes, DividedStep, Zenon
<1>3. Inv /\ Divided => InOnePlace
  BY OneEach, Zenon
<1> QED
  BY <1>1, <1>2, <1>3, PTL DEF Spec
=============================================================================
