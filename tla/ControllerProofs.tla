-------------------------- MODULE ControllerProofs --------------------------
(***************************************************************************)
(* For any workers, reports, restarts and failures: the answer of          *)
(* PickBestWorker is as good as any worker that was usable all the time.   *)
(***************************************************************************)
EXTENDS Controller, WellFoundedInduction, TLAPS

\* What SMT may take for a step, in seconds.
USE SMTT(60), Z3T(60)

Record == [id : Workers, info : Infos]

\* Handlers of a registration and of a late heartbeat.
Handlers == [no : Nat, id : Workers, info : Infos, pc : {"put", "index"}]
            \cup [no : {0}, id : Workers, pc : {"heartbeat"}]

\* The part of the type invariant that the choice depends on.
Inv ==
    /\ record \in [Workers -> Infos \cup {Nil}]
    /\ index \subseteq Workers /\ seen \subseteq Workers
    /\ registering \subseteq Handlers
    /\ starts \in Nat
    /\ pick \in [pc : {"done", "get"}, left : SUBSET Workers, workers : SUBSET Record,
                 missed : SUBSET Workers]

\* A worker usable since loadIndex is still to be read, could not be read, or has been
\* read as it is.
SteadyFound ==
    /\ steady \subseteq Usable
    /\ pick.pc = "get" =>
          \A r \in steady : r.id \in pick.left \cup pick.missed \/ r \in pick.workers

-----------------------------------------------------------------------------
(* The choice.                                                             *)

\* A set of natural numbers has a least element.
LEMMA Least ==
    ASSUME NEW S \in SUBSET Nat, S # {}
    PROVE  \E n \in S : \A m \in S : n <= m
<1> DEFINE R == OpToRel(<, Nat)
<1>1. IsWellFoundedOn(R, Nat)
  BY NatLessThanWellFounded, Zenon
<1>2. \A x, y \in Nat : x < y => <<x, y>> \in R
  BY Zenon DEF OpToRel
<1> HIDE DEF R
<1>3. PICK n \in S : \A m \in S : ~(<<m, n>> \in R)
  BY <1>1, WFMin, Zenon
<1>4. ASSUME NEW m \in S PROVE n <= m
  <2>1. ~(m < n)
    BY <1>2, <1>3, Zenon
  <2> QED
    BY <2>1
<1> QED
  BY <1>4, Zenon

\* The highest utilization of the GPUs of a worker is a percentage.
LEMMA MaxUtil ==
    ASSUME NEW S \in SUBSET (0 .. 100)
    PROVE  Max(S \cup {0}) \in 0 .. 100
<1> DEFINE U == S \cup {0}
           T == {100 - x : x \in U}
<1>1. T \in SUBSET Nat /\ T # {} /\ U \subseteq 0 .. 100
  OBVIOUS
<1>2. PICK n \in T : \A m \in T : n <= m
  BY <1>1, Least, Zenon
<1>3. PICK x \in U : n = 100 - x
  BY <1>2, Zenon
<1>4. ASSUME NEW y \in U PROVE x >= y
  <2>1. 100 - y \in T
    BY Zenon
  <2>2. 100 - x <= 100 - y
    BY <1>2, <1>3, <2>1, Zenon
  <2>3. x \in 0 .. 100 /\ y \in 0 .. 100
    BY <1>1, Zenon
  <2> QED
    BY ONLY <2>2, <2>3
<1> HIDE DEF U
<1>5. Max(U) \in U
  BY <1>4, Zenon DEF Max
<1> QED
  BY <1>1, <1>5, Zenon DEF U

\* workerLoadScore is a natural number for every report.
LEMMA ScoreIsNat == \A info \in Infos : workerLoadScore(info) \in Nat
BY MaxUtil, ControllerAssumption DEF workerLoadScore

\* pickLowestLoadWorker finds a worker when one is usable, and none has less load.
LEMMA LowestIsThere ==
    ASSUME NEW workers \in SUBSET Record, NEW r \in workers, r.info.status # "offline"
    PROVE  /\ pickLowestLoadWorker(workers) # {}
           /\ \A b \in pickLowestLoadWorker(workers) :
                 b \in Record /\ workerLoadScore(b.info) <= workerLoadScore(r.info)
<1> DEFINE usable == {q \in workers : q.info.status # "offline"}
           Score(q) == workerLoadScore(q.info)
           T == {Score(q) : q \in usable}
<1>1. T \in SUBSET Nat /\ T # {}
  <2>1. \A q \in usable : Score(q) \in Nat
    BY ScoreIsNat, Zenon DEF Record
  <2>2. r \in usable
    BY Zenon
  <2> QED
    BY <2>1, <2>2, Zenon
<1>2. PICK n \in T : \A m \in T : n <= m
  BY <1>1, Least, Zenon
<1>3. PICK q \in usable : n = Score(q)
  BY <1>2, Zenon
<1>4. q \in pickLowestLoadWorker(workers)
  BY <1>2, <1>3, Zenon DEF pickLowestLoadWorker
<1> QED
  BY <1>4, Zenon DEF pickLowestLoadWorker

-----------------------------------------------------------------------------
(* The steps.                                                              *)

\* Every step keeps the types.
LEMMA StepTypes == Inv /\ [Next]_vars => Inv'
<1> SUFFICES ASSUME Inv, [Next]_vars PROVE Inv'
  BY Zenon
<1> USE DEF Inv
<1>1. ASSUME NEW w \in Workers, Start(w) PROVE Inv'
  <2>1. starts + 1 \in Nat
    OBVIOUS
  <2>2. registering' \subseteq Handlers /\ starts' \in Nat
    <3>1. PICK info \in Infos :
             registering' = registering \cup
                {[no |-> starts + 1, id |-> w, info |-> info, pc |-> "put"]}
      BY <1>1, Zenon DEF Start
    <3>2. [no |-> starts + 1, id |-> w, info |-> info, pc |-> "put"] \in Handlers
      BY <2>1 DEF Handlers
    <3> QED
      BY <1>1, <2>1, <3>1, <3>2, Zenon DEF Start
  <2> QED
    BY <1>1, <2>2, Zenon DEF Start, kvVars, memory
<1>2. ASSUME NEW w \in Workers, Stop(w) \/ Age(w) PROVE Inv'
  <2>1. [no |-> 0, id |-> w, pc |-> "heartbeat"] \in Handlers
    BY Zenon DEF Handlers
  <2> QED
    BY <1>2, <2>1, Zenon DEF Stop, Age, kvVars, memory, workerVars
<1>3. ASSUME NEW w \in Workers, Heartbeat(w) PROVE Inv'
  BY <1>3, Zenon DEF Heartbeat, Noted, saveIndexLocked, workerVars
<1>4. ASSUME NEW w \in Workers, GetWorker(w) PROVE Inv'
  <2>1. record[w] # Nil => [id |-> w, info |-> record[w]] \in Record
    BY Zenon DEF Record
  <2>2. UNCHANGED <<record, index, seen, registering, starts>>
    BY <1>4, Zenon DEF GetWorker, kvVars, memory, workerVars
  <2>3. \/ pick' = [pick EXCEPT !.left = @ \ {w}, !.missed = @ \cup {w}]
        \/ pick' = [pick EXCEPT !.left = @ \ {w}, !.workers = @]
        \/ pick' = [pick EXCEPT !.left = @ \ {w},
                                !.workers = @ \cup {[id |-> w, info |-> record[w]]}]
           /\ record[w] # Nil
    BY <1>4, Zenon DEF GetWorker
  <2>4. pick' \in [pc : {"done", "get"}, left : SUBSET Workers, workers : SUBSET Record,
                   missed : SUBSET Workers]
    <3>1. CASE pick' = [pick EXCEPT !.left = @ \ {w}, !.missed = @ \cup {w}]
      BY <3>1, Zenon
    <3>2. CASE pick' = [pick EXCEPT !.left = @ \ {w}, !.workers = @]
      BY <3>2, Zenon
    <3>3. CASE /\ pick' = [pick EXCEPT !.left = @ \ {w},
                                      !.workers = @ \cup {[id |-> w, info |-> record[w]]}]
               /\ record[w] # Nil
      BY <2>1, <3>3, Zenon
    <3> QED
      BY <2>3, <3>1, <3>2, <3>3, Zenon
  <2> QED
    BY <2>2, <2>4, Zenon
<1>5. ASSUME NEW h \in registering, RegisterPut(h) PROVE Inv'
  <2>0. h \in [no : Nat, id : Workers, info : Infos, pc : {"put", "index"}]
    BY <1>5, Zenon DEF RegisterPut, Handlers
  <2>1. record' \in [Workers -> Infos \cup {Nil}]
    BY <1>5, <2>0, Zenon DEF RegisterPut
  <2>2. registering' \subseteq Handlers
    <3>1. [h EXCEPT !.pc = "index"] \in Handlers
      BY <2>0, Zenon DEF Handlers
    <3> QED
      BY <1>5, <3>1, Zenon DEF RegisterPut
  <2> QED
    BY <1>5, <2>1, <2>2, Zenon DEF RegisterPut, Answered, memory, workerVars
<1>6. ASSUME NEW h \in registering, RegisterIndex(h) \/ LateHeartbeat(h) PROVE Inv'
  <2>1. h.id \in Workers
    BY Zenon DEF Handlers
  <2> QED
    BY <1>6, <2>1, Zenon DEF RegisterIndex, LateHeartbeat, Noted, saveIndexLocked, Answered, workerVars
<1>7. CASE heartbeatChecker
  BY <1>7, Zenon DEF heartbeatChecker, Forget, saveIndexLocked, workerVars
<1>8. CASE loadIndex
  <2>1. UNCHANGED <<record, index, registering, starts>> /\ seen' \subseteq Workers
    BY <1>8, Zenon DEF loadIndex, kvVars, workerVars
  <2>2. PICK S \in {seen, index} :
           \/ pick' = [Idle EXCEPT !.pc = "get", !.left = S]
           \/ pick' = Idle
    BY <1>8, Zenon DEF loadIndex
  <2>3. CASE pick' = Idle
    BY <2>1, <2>3, Zenon DEF Idle
  <2>4. CASE pick' = [Idle EXCEPT !.pc = "get", !.left = S]
    <3>1. pick' = [pc |-> "get", left |-> S, workers |-> {}, missed |-> {}]
      BY <2>4, Zenon DEF Idle
    <3> QED
      BY <2>1, <3>1, Zenon
  <2> QED
    BY <2>2, <2>3, <2>4, Zenon
<1>9. ASSUME NEW best, PickBestWorker(best) PROVE Inv'
  BY <1>9, Zenon DEF PickBestWorker, Idle, kvVars, memory, workerVars
<1>10. CASE New
  BY <1>10, Zenon DEF New, Idle, kvVars
<1>11. CASE UNCHANGED vars
  BY <1>11, Zenon DEF vars, kvVars, memory, workerVars
<1> QED
  BY <1>1, <1>2, <1>3, <1>4, <1>5, <1>6, <1>7, <1>8, <1>9, <1>10, <1>11, Zenon DEF Next, Step

\* Every step keeps the workers usable all the time among those found.
LEMMA SteadyStep == Inv /\ SteadyFound /\ [Next]_vars => SteadyFound'
<1> SUFFICES ASSUME Inv, SteadyFound, [Next]_vars PROVE SteadyFound'
  BY Zenon
<1>1. CASE UNCHANGED vars
  BY <1>1, Zenon DEF vars, kvVars, memory, SteadyFound, Usable
<1> SUFFICES ASSUME Step, Watch PROVE SteadyFound'
  BY <1>1, Zenon DEF Next
<1>2. steady' \subseteq Usable'
  BY Zenon DEF Watch
<1>3. CASE UNCHANGED pick
  BY <1>2, <1>3, Zenon DEF Watch, SteadyFound
<1>4. ASSUME NEW w \in Workers, GetWorker(w) PROVE SteadyFound'
  <2> SUFFICES ASSUME NEW r \in steady'
               PROVE  r.id \in pick'.left \cup pick'.missed \/ r \in pick'.workers
    BY <1>2, Zenon DEF SteadyFound
  <2>1. r \in steady /\ r \in Usable /\ r = [id |-> r.id, info |-> r.info]
    BY <1>4, Zenon DEF GetWorker, Watch, Inv, SteadyFound, Usable
  <2>2. r.id \in pick.left \cup pick.missed \/ r \in pick.workers
    BY <1>4, <2>1, Zenon DEF GetWorker, SteadyFound
  <2>3. record[r.id] = r.info /\ r.info # Nil
    BY <2>1, ControllerAssumption, Zenon DEF Usable
  <2>4. CASE pick' = [pick EXCEPT !.left = @ \ {w}, !.missed = @ \cup {w}]
    BY <2>2, <2>4, Zenon DEF Inv
  <2>5. CASE pick' = [pick EXCEPT !.left = @ \ {w},
                        !.workers = IF record[w] = Nil THEN @
                                    ELSE @ \cup {[id |-> w, info |-> record[w]]}]
    <3>1. pick'.left = pick.left \ {w} /\ pick'.missed = pick.missed
      BY <2>5, Zenon DEF Inv
    <3>2. pick'.workers = IF record[w] = Nil THEN pick.workers
                          ELSE pick.workers \cup {[id |-> w, info |-> record[w]]}
      BY <2>5, Zenon DEF Inv
    <3>3. CASE r.id = w
      BY <2>1, <2>3, <3>2, <3>3, Zenon
    <3>4. CASE r.id # w
      BY <2>2, <3>1, <3>2, <3>4, Zenon
    <3> QED
      BY <3>3, <3>4, Zenon
  <2> QED
    BY <1>4, <2>4, <2>5, Zenon DEF GetWorker
<1>5. CASE loadIndex
  BY <1>2, <1>5, ZenonT(60) DEF loadIndex, Idle, Watch, SteadyFound, Usable, Inv, kvVars
<1>6. CASE New \/ \E best \in Answers : PickBestWorker(best)
  <2>1. pick'.pc = "done"
    <3>1. pick' = Idle
      BY <1>6, Zenon DEF PickBestWorker, New
    <3> QED
      BY <3>1, Zenon DEF Idle
  <2> QED
    BY <1>2, <2>1, Zenon DEF SteadyFound
<1> QED
  BY <1>3, <1>4, <1>5, <1>6, Zenon DEF Step, Start, Stop, Heartbeat, Age, RegisterPut, RegisterIndex,
     LateHeartbeat, heartbeatChecker

\* BestOfSteady of Controller, for any number of workers and whatever happens between
\* loadIndex, the reads of the records and the choice (PickBestWorker).
THEOREM PickIsBest == Spec => BestOfSteady
<1> DEFINE Best(best, r) == r.id \notin pick.missed =>
              best # Nil /\ workerLoadScore(best.info) <= workerLoadScore(r.info)
<1>1. Init => Inv /\ SteadyFound
  BY DEF Init, Inv, SteadyFound, Idle
<1>2. Inv /\ SteadyFound /\ [Next]_vars => (Inv /\ SteadyFound)'
  BY StepTypes, SteadyStep, Zenon
<1>3. ASSUME Inv, SteadyFound, NEW best \in Answers, PickBestWorker(best),
             NEW r \in steady, r.id \notin pick.missed
      PROVE  best # Nil /\ workerLoadScore(best.info) <= workerLoadScore(r.info)
  <2> DEFINE listed == {q \in pick.workers : q.id \in seen}
  <2>1. r \in listed /\ r.info.status # "offline" /\ listed \in SUBSET Record
    BY <1>3, Zenon DEF PickBestWorker, SteadyFound, Usable, Inv
  <2>2. /\ pickLowestLoadWorker(listed) # {}
        /\ \A b \in pickLowestLoadWorker(listed) :
              b \in Record /\ workerLoadScore(b.info) <= workerLoadScore(r.info)
    BY <2>1, LowestIsThere, Zenon
  <2>3. best \in pickLowestLoadWorker(listed)
    BY <1>3, <2>2, Zenon DEF Answers
  <2> QED
    BY <2>2, <2>3, ControllerAssumption, Zenon DEF Record
<1>4. Inv /\ SteadyFound =>
         [\A best \in Answers : PickBestWorker(best) => \A r \in steady : Best(best, r)]_vars
  BY <1>3, Zenon
<1> QED
  BY <1>1, <1>2, <1>4, PTL DEF Spec, BestOfSteady
=============================================================================
