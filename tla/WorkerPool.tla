----------------------------- MODULE WorkerPool -----------------------------
(***************************************************************************)
(* The data plane of a worker, src/worker: HTTP handlers that submit tasks *)
(* to a bounded queue, and GPU goroutines that take tasks from it, one at  *)
(* a time, and answer on the task's own channel.  A task is named after    *)
(* the request it is for.  Each request's context ends when its caller     *)
(* closes the connection; the task then stays in the queue.                *)
(***************************************************************************)
EXTENDS Integers, Sequences, FiniteSets

CONSTANTS
    Requests,
    Workers,        \* worker processes
    Gpus,           \* GPU goroutines of a worker
    QueueCap,       \* defaultQueueCap
    Nil

ASSUME PoolAssumption == QueueCap \in Nat

VARIABLES
    queue,          \* [Workers -> Seq(Requests)]
    gpu,            \* [Workers -> [Gpus -> Requests \cup {Nil}]]
    submit,         \* [Requests -> where its Submit stands]
    at,             \* [Requests -> the worker asked]
    done,           \* [Requests -> the task's Done channel]
    gone,           \* requests whose context has ended
    computed        \* history: requests for which a GPU had a result

poolVars == <<queue, gpu, submit, at, done, gone, computed>>

Results == {"reply", "error"}

-----------------------------------------------------------------------------
(* Submit, called by handleChat.                                           *)

\* The caller's POST is on its way to worker w ...
Sent(r, w) ==
    /\ submit' = [submit EXCEPT ![r] = "sent"]
    /\ at' = [at EXCEPT ![r] = w]
    /\ UNCHANGED <<queue, gpu, done, gone, computed>>

\* ... and arrives, if it does, even when the caller has left by then.
handleChat(r) ==
    /\ submit[r] = "sent"
    /\ submit' = [submit EXCEPT ![r] = "enqueuing"]
    /\ UNCHANGED <<queue, gpu, at, done, gone, computed>>

Enqueue(r) ==
    /\ submit[r] = "enqueuing" /\ Len(queue[at[r]]) < QueueCap
    /\ queue' = [queue EXCEPT ![at[r]] = Append(@, r)]
    /\ submit' = [submit EXCEPT ![r] = "waiting"]
    /\ UNCHANGED <<gpu, at, done, gone, computed>>

\* Mutant: the zero ChatResponse is returned without an error.
EnqueueTimeoutQuiet(r) ==
    /\ submit[r] = "enqueuing" /\ Len(queue[at[r]]) = QueueCap
    /\ submit' = [submit EXCEPT ![r] = "reply"]
    /\ UNCHANGED <<queue, gpu, at, done, gone, computed>>

\* 5 s without room in the queue.
EnqueueTimeout(r) ==
    /\ submit[r] = "enqueuing" /\ Len(queue[at[r]]) = QueueCap
    /\ submit' = [submit EXCEPT ![r] = "error"]
    /\ UNCHANGED <<queue, gpu, at, done, gone, computed>>

\* The second select: the result, or the end of the context.
Receive(r) ==
    /\ submit[r] = "waiting" /\ done[r] # Nil
    /\ submit' = [submit EXCEPT ![r] = done[r]]
    /\ done' = [done EXCEPT ![r] = Nil]
    /\ UNCHANGED <<queue, gpu, at, gone, computed>>

ContextDone(r) ==
    /\ submit[r] \in {"enqueuing", "waiting"} /\ r \in gone
    /\ submit' = [submit EXCEPT ![r] = "error"]
    /\ UNCHANGED <<queue, gpu, at, done, gone, computed>>

-----------------------------------------------------------------------------
(* gpuLoop.                                                                *)

Take(w, g) ==
    /\ gpu[w][g] = Nil /\ queue[w] # << >>
    /\ gpu' = [gpu EXCEPT ![w][g] = Head(queue[w])]
    /\ queue' = [queue EXCEPT ![w] = Tail(@)]
    /\ UNCHANGED <<submit, at, done, gone, computed>>

\* Mutant: a Done channel without a buffer, so that the send waits for Submit.
GenerateAndWait(w, g) ==
    LET r == gpu[w][g]
    IN  /\ r # Nil /\ done[r] = Nil /\ submit[r] = "waiting"
        /\ \E result \in Results :
              /\ done' = [done EXCEPT ![r] = result]
              /\ computed' = IF result = "reply" THEN computed \cup {r} ELSE computed
        /\ gpu' = [gpu EXCEPT ![w][g] = Nil]
        /\ UNCHANGED <<queue, submit, at, gone>>

\* Generate returns, with an error if it fails or the context has ended, and the
\* result is sent on the task's channel, which has room for one.
Generate(w, g) ==
    LET r == gpu[w][g]
    IN  /\ r # Nil /\ done[r] = Nil
        /\ \E result \in Results :
              /\ done' = [done EXCEPT ![r] = result]
              /\ computed' = IF result = "reply" THEN computed \cup {r} ELSE computed
        /\ gpu' = [gpu EXCEPT ![w][g] = Nil]
        /\ UNCHANGED <<queue, submit, at, gone>>

\* The process dies with its queue and its open requests, and is started again.
Crash(w) ==
    /\ queue' = [queue EXCEPT ![w] = << >>]
    /\ gpu' = [gpu EXCEPT ![w] = [g \in Gpus |-> Nil]]
    /\ submit' = [r \in Requests |-> IF at[r] = w /\ submit[r] \in {"enqueuing", "waiting"}
                                       THEN "error" ELSE submit[r]]
    /\ done' = [r \in Requests |-> IF at[r] = w THEN Nil ELSE done[r]]
    /\ UNCHANGED <<at, gone, computed>>

-----------------------------------------------------------------------------

PoolInit ==
    /\ queue = [w \in Workers |-> << >>]
    /\ gpu = [w \in Workers |-> [g \in Gpus |-> Nil]]
    /\ submit = [r \in Requests |-> Nil]
    /\ at = [r \in Requests |-> Nil]
    /\ done = [r \in Requests |-> Nil]
    /\ gone = {} /\ computed = {}

Submit(r) == Enqueue(r) \/ EnqueueTimeout(r) \/ Receive(r) \/ ContextDone(r)

gpuLoop(w, g) == Take(w, g) \/ Generate(w, g)

PoolStep ==
    \/ \E r \in Requests : handleChat(r) \/ Submit(r)
    \/ \E w \in Workers : \E g \in Gpus : gpuLoop(w, g)
=============================================================================
