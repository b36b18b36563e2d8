---------------------------- MODULE KVRefinement ----------------------------
(***************************************************************************)
(* What the key/value servers promise to their Clerks: the store that      *)
(* LinearKV describes, in which an operation takes effect at one moment.   *)
(***************************************************************************)
EXTENDS KVClerk

\* The operation that t does has taken effect: Raft has committed it.
Effective(t) == <<t, opNo[t]>> \in DOMAIN effect.results

Abstract == INSTANCE LinearKV WITH
    store  <- effect.store,
    phase  <- [t \in Threads |-> IF ~busy[t] THEN "idle"
                                 ELSE IF Effective(t) THEN "effective" ELSE "called"],
    result <- [t \in Threads |-> IF busy[t] /\ Effective(t)
                                   THEN effect.results[<<t, opNo[t]>>] ELSE Nil],
    EmptyStore <- EmptyDb.kvStore,
    NoReply <- Nil

\* The service is linearizable: every operation of a Clerk takes effect once, between
\* its call and its return, when Raft commits it, and returns the result of that
\* moment, whichever of its calls is answered and from whichever server.
Linearizable == Abstract!Spec
=============================================================================
