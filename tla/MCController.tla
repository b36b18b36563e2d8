---------------------------- MODULE MCController ----------------------------
(***************************************************************************)
(* Two workers that report to be idle or busy, for TLC.                    *)
(***************************************************************************)
EXTENDS Controller

CONSTANTS w1, w2

\* An idle worker with some load, and a busy one.  A worker may report "offline" as well,
\* which only the choice looks at; PickIsBest of ControllerProofs is about all reports.
IdleOrBusy == {[status |-> "idle", utils |-> {10, 30}], [status |-> "busy", utils |-> {10}]}

FairSpec == Spec /\ Fairness
=============================================================================
