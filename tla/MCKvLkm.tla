------------------------------- MODULE MCKvLkm -------------------------------
(* Instances of KvLkm: k1 and k2 share a chain, k3 has the other one. *)
EXTENDS KvLkm, TLC

CONSTANTS k1, k2, k3, v1, v2, t1, t2

MCHashMin == [k \in Keys |-> IF k = k3 THEN 1 ELSE 0]
MCStrscpy == [v \in Values |-> v]

(* All clients use all keys. *)
SharedKeys == [t \in Threads |-> Keys]

(* Every client has keys of its own. *)
OwnKeys == [t \in Threads |-> IF t = t1 THEN {k1, k3} ELSE {k2}]

=============================================================================
