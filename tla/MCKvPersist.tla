----------------------------- MODULE MCKvPersist -----------------------------
(* Instances of KvPersist: the main thread m and one client c. *)
EXTENDS KvPersist, TLC

CONSTANTS k1, k2, v1, v2

MCHashMin == [k \in Keys |-> IF k = k2 THEN NumBuckets - 1 ELSE 0]
MCStrscpy == [v \in Values |-> v]
AllKeys == [t \in Threads |-> Keys]

(* One thread at a time: the client works while main waits for it. *)
Sequential ==
  upc[Main] # "accept" =>
    \A t \in Clients : pc[t] = "idle" /\ upc[t] \in {"down", "none", "ready"}

(* k2 is nowhere. *)
OneKey ==
  /\ map[k2] = NULL
  /\ \A t \in Threads : pc[t] = "idle" \/ "key" \notin DOMAIN call[t] \/ call[t].key # k2
  /\ \A e \in todo \cup (IF file = NULL THEN {} ELSE file.entries)
                 \cup UNION {snap[t].entries \cup out[t] : t \in Threads} : e.key # k2

(* One key and all interleavings; or two keys, one thread at a time and one *)
(* signal per shutdown.                                                     *)
OneKeyOrSequential == OneKey \/ (Sequential /\ ~ again)

ValueSymmetry == Permutations(Values)

=============================================================================
