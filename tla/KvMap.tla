-------------------------------- MODULE KvMap --------------------------------
(***************************************************************************)
(* What kernel/kv_hash.h promises about single keys: a map on which add,   *)
(* remove and lookup take effect at one instant between call and return,   *)
(* whatever the other threads do (linearizability).  A call is made        *)
(* (Begin), takes effect together with its result (one of the Do actions)  *)
(* and returns (Return).  The walks, count and snapshot, visit the buckets *)
(* one after the other; here they only promise not to change the map.      *)
(***************************************************************************)
EXTENDS KvBase

CONSTANT Caps   \* capacities that a snapshot may be asked for

VARIABLES
  map,    \* map[k]: the string stored for k, or NULL
  phase,  \* phase[t]: "idle", "called" or "effected"
  req,    \* req[t]: the call in progress
  ret,    \* ret[t]: its return code, once it has taken effect
  buf     \* buf[t]: what a lookup has copied to its out_buf

vars == <<map, phase, req, ret, buf>>

TypeOK ==
  /\ map \in [Keys -> Values \cup {NULL}]
  /\ phase \in [Threads -> {"idle", "called", "effected"}]
  /\ req \in [Threads -> Requests(Caps) \cup {NULL}]
  /\ ret \in [Threads -> Codes \cup {NULL}]
  /\ buf \in [Threads -> Values \cup {NULL}]

Init ==
  /\ map = [k \in Keys |-> NULL]
  /\ phase = [t \in Threads |-> "idle"]
  /\ req = [t \in Threads |-> NULL]
  /\ ret = [t \in Threads |-> NULL]
  /\ buf = [t \in Threads |-> NULL]

Begin(t) ==
  /\ phase[t] = "idle"
  /\ phase' = [phase EXCEPT ![t] = "called"]
  /\ \E r \in Requests(Caps) : req' = [req EXCEPT ![t] = r]
  /\ UNCHANGED <<map, ret, buf>>

(* The call of t, a call of fn, takes effect and will return code. *)
Effect(t, fn, code) ==
  /\ phase[t] = "called"
  /\ req[t].fn = fn
  /\ phase' = [phase EXCEPT ![t] = "effected"]
  /\ ret' = [ret EXCEPT ![t] = code]
  /\ UNCHANGED req

DoAdd(t) ==
  /\ Effect(t, "add", "OK")
  /\ map' = [map EXCEPT ![req[t].key] = req[t].value]
  /\ UNCHANGED buf

DoAddNoMem(t) ==
  /\ Effect(t, "add", "ENOMEM")
  /\ UNCHANGED <<map, buf>>

DoRemove(t) ==
  /\ Effect(t, "remove", IF map[req[t].key] = NULL THEN "ENOENT" ELSE "OK")
  /\ map' = [map EXCEPT ![req[t].key] = NULL]
  /\ UNCHANGED buf

DoLookup(t) ==
  LET code == LookupCode(map, req[t].key) IN
  /\ Effect(t, "lookup", code)
  /\ buf' = [buf EXCEPT ![t] = IF code = "OK" THEN map[req[t].key] ELSE @]
  /\ UNCHANGED map

DoCount(t) ==
  /\ Effect(t, "count", "OK")
  /\ UNCHANGED <<map, buf>>

DoSnapshot(t) ==
  /\ Effect(t, "snapshot", IF req[t].max = 0 THEN "EINVAL" ELSE "OK")
  /\ UNCHANGED <<map, buf>>

Return(t) ==
  /\ phase[t] = "effected"
  /\ phase' = [phase EXCEPT ![t] = "idle"]
  /\ req' = [req EXCEPT ![t] = NULL]
  /\ ret' = [ret EXCEPT ![t] = NULL]
  /\ buf' = [buf EXCEPT ![t] = NULL]
  /\ UNCHANGED map

Next ==
  \E t \in Threads :
    \/ Begin(t)
    \/ DoAdd(t) \/ DoAddNoMem(t) \/ DoRemove(t) \/ DoLookup(t)
    \/ DoCount(t) \/ DoSnapshot(t)
    \/ Return(t)

Spec == Init /\ [][Next]_vars

=============================================================================
