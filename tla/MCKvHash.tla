------------------------------ MODULE MCKvHash ------------------------------
(***************************************************************************)
(* A small instance of the hash table and of its walks: k1 and k2 share a  *)
(* chain, k3 has the other one; "long" does not fit a 64-byte buffer, and  *)
(* "cut" is what strscpy leaves of it.                                     *)
(***************************************************************************)
EXTENDS KvHashWalk, TLC

CONSTANTS k1, k2, k3, v1, v2, long, cut, t1, t2

MCHashMin == [k \in Keys |-> IF k = k3 THEN 1 ELSE 0]
MCStrscpy == [v \in Values |-> IF v = long THEN cut ELSE v]

(* The string v is in memory or about to be added. *)
Present(v) ==
  \/ \E p \in Ptrs : str[p] = v
  \/ \E t \in Threads : pc[t] # "idle" /\ req[t].fn = "add" /\ req[t].value = v

(* t2 adds and removes, t1 does that too, looks up or walks: what a call    *)
(* can see of any number of writers, one after the other under the bucket   *)
(* locks, t2 can do alone, and two calls that only read do not meet.  A     *)
(* walk meets two strings, other calls one that fits and one that does not, *)
(* and while a walk lasts the table holds at most MaxEver different pairs.  *)
MaxEver == 3
Bounded ==
  /\ pc[t2] # "idle" => req[t2].fn \in {"add", "remove"}
  /\ Present(v1) /\ Present(v2) => Walking(t1)
  /\ Present(long) => ~ Walking(t1)
  /\ ~ Present(cut)
  /\ Cardinality(ever[t1]) <= MaxEver

Symmetry == Permutations(Ptrs) \cup Permutations({v1, v2})

=============================================================================
