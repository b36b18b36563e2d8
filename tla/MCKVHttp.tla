------------------------------ MODULE MCKVHttp ------------------------------
(***************************************************************************)
(* Two servers, one key and two goroutines for TLC, with a Client          *)
(* each, with one Client between them, or without client ids.              *)
(***************************************************************************)
EXTENDS KVHttp, TLC

CONSTANTS a, b, x, shared

Does(type) == [type |-> type, key |-> x]

OwnIds   == [t \in Threads |-> t]
OneId    == [t \in Threads |-> shared]
NoIds    == [t \in Threads |-> Anonymous]

PutAndDelete == a :> <<Does("Put")>> @@ b :> <<Does("Delete")>>
PutThenGet   == a :> <<Does("Put"), Does("Get")>>
=============================================================================
