------------------------------ MODULE MCKvSpin ------------------------------
(* An instance of KvSpin: two threads, each key with a chain of its own. *)
EXTENDS KvSpin

CONSTANTS k1, k3, v1

MCHashMin == [k \in Keys |-> IF k = k3 THEN 1 ELSE 0]
MCStrscpy == [v \in Values |-> v1]

=============================================================================
