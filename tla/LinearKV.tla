------------------------------ MODULE LinearKV ------------------------------
(***************************************************************************)
(* What the key/value service promises a client that does one operation at *)
(* a time: each operation takes effect exactly once, at one moment between *)
(* its call and its return, and returns the result of that moment.  This   *)
(* is the model the tests of src/kvraft check histories against.           *)
(***************************************************************************)
EXTENDS Integers, Sequences

CONSTANTS Threads, Script, Execute(_, _), ReplyTo(_, _), EmptyStore, NoReply

VARIABLES
    store,      \* the map
    opNo,       \* [Threads -> Nat]: the operation a goroutine is at
    phase,      \* [Threads -> {"idle", "called", "effective"}]
    result,     \* what the running operation will return
    returned    \* what the last operation returned

vars == <<store, opNo, phase, result, returned>>

Init ==
    /\ store = EmptyStore
    /\ opNo = [t \in Threads |-> 0]
    /\ phase = [t \in Threads |-> "idle"]
    /\ result = [t \in Threads |-> NoReply]
    /\ returned = [t \in Threads |-> NoReply]

Call(t) ==
    /\ phase[t] = "idle" /\ opNo[t] < Len(Script[t])
    /\ phase' = [phase EXCEPT ![t] = "called"]
    /\ opNo' = [opNo EXCEPT ![t] = @ + 1]
    /\ UNCHANGED <<store, result, returned>>

TakeEffect(t) ==
    /\ phase[t] = "called"
    /\ phase' = [phase EXCEPT ![t] = "effective"]
    /\ store' = Execute(store, <<t, opNo[t]>>)
    /\ result' = [result EXCEPT ![t] = ReplyTo(store, <<t, opNo[t]>>)]
    /\ UNCHANGED <<opNo, returned>>

Return(t) ==
    /\ phase[t] = "effective"
    /\ phase' = [phase EXCEPT ![t] = "idle"]
    /\ returned' = [returned EXCEPT ![t] = result[t]]
    /\ result' = [result EXCEPT ![t] = NoReply]
    /\ UNCHANGED <<store, opNo>>

Next == \E t \in Threads : Call(t) \/ TakeEffect(t) \/ Return(t)

Spec == Init /\ [][Next]_vars
=============================================================================
