----------------------------- MODULE MCGateway ------------------------------
(***************************************************************************)
(* Three requests through queues of one place, for TLC.                    *)
(***************************************************************************)
EXTENDS Gateway

CONSTANTS r1, r2, r3, w1, d1

FairSpec == Spec /\ Fairness
=============================================================================
