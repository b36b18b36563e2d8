----------------------------- MODULE MCKVClerk ------------------------------
(***************************************************************************)
(* Two servers, one key and one or two Clerks for TLC.  Two servers are    *)
(* enough: what Raft needs a majority for is part of what it promises.     *)
(***************************************************************************)
EXTENDS KVRefinement, TLC

CONSTANTS a, b, x

Does(type) == [type |-> type, key |-> x]

OwnIds == [t \in Threads |-> t]

OneWrite  == a :> <<Does("Append")>>
TwoWrites == a :> <<Does("Append"), Does("Append")>>
OneEach   == a :> <<Does("Append")>> @@ b :> <<Does("Get")>>

\* Only requests of the first operation, unhandled, outlive their call.
FirstIsLate ==
    \A id \in CallIds : calls[id].phase = "free" \/ calls[id].live
                        \/ (calls[id].tag[2] = 1 /\ calls[id].phase \in {"sent", "started"})

FairSpec == Spec /\ Fairness
=============================================================================
