-------------------------------- MODULE KvLkm --------------------------------
(***************************************************************************)
(* The ioctl handlers of the module (kernel/kvlkm.c).  Every thread that   *)
(* has /dev/kv_store open may be inside kv_ioctl at the same time; the     *)
(* handlers hold no lock of their own, so a step is one call of a kv_hash  *)
(* function.  The keyed functions act on the table in one instant (KvHash  *)
(* implements KvMap), so the table is the map; count and snapshot visit    *)
(* one bucket at a time.                                                   *)
(*                                                                         *)
(* KeysOf[t] are the keys that thread t works on.  With KeysOf[t] = Keys   *)
(* the clients compete for keys; with disjoint sets they do not, as in     *)
(* run_latency_bench_multi_thread (benchmark/benchmark.cpp:221).           *)
(***************************************************************************)
EXTENDS KvBase

CONSTANTS KeysOf, Capacities

ASSUME KeysOfAssumption == KeysOf \in [Threads -> SUBSET Keys]
ASSUME CapacitiesAssumption == Capacities \subseteq Nat

ENOMEM == 12
EFAULT == 14
EINVAL == 22

VARIABLES
  map,    \* the contents of kv_store
  pc,     \* pc[t]: where thread t is in kv_ioctl
  call,   \* call[t]: the command and what user space passed with it
  reply,  \* reply[t]: msg.status and msg.value (NULL: no stored string)
  bkt,    \* bkt[t]: the next bucket of a walk
  cnt,    \* cnt[t]: the entries counted or copied so far
  out,    \* out[t]: snapshot_msg->entries
  cap,    \* cap[t]: snapshot_msg->capacity, what the kernel has allocated
  ret     \* ret[t]: what kv_ioctl returns

vars == <<map, pc, call, reply, bkt, cnt, out, cap, ret>>
walk == <<bkt, cnt, out, cap>>

Calls(t) ==
       [cmd : {"INSERT", "UPDATE"}, key : KeysOf[t], value : Values]
  \cup [cmd : {"GET", "DELETE"}, key : KeysOf[t]]
  \cup [cmd : {"COUNT", "OTHER"}]
  \cup [cmd : {"SNAPSHOT"}, capacity : Capacities]

Replies == [status : {0, 1, -ENOMEM}, value : Values \cup {NULL}]

ASSUME RepliesAssumption == NULL \notin Replies

Labels == {"idle", "dispatch", "lookup", "add", "get", "remove",
           "count", "verify", "copy", "copyout", "done"}

TypeOK ==
  /\ map \in [Keys -> Values \cup {NULL}]
  /\ pc \in [Threads -> Labels]
  /\ call \in [Threads -> (UNION {Calls(t) : t \in Threads}) \cup {NULL}]
  /\ \A t \in Threads : call[t] \in Calls(t) \cup {NULL}
  /\ reply \in [Threads -> Replies \cup {NULL}]
  /\ bkt \in [Threads -> 0 .. NumBuckets]
  /\ cnt \in [Threads -> Nat]
  /\ out \in [Threads -> SUBSET [key : Keys, value : Values]]
  /\ cap \in [Threads -> Nat]
  /\ ret \in [Threads -> Int]

Init ==
  /\ map = [k \in Keys |-> NULL]
  /\ pc = [t \in Threads |-> "idle"]
  /\ call = [t \in Threads |-> NULL]
  /\ reply = [t \in Threads |-> NULL]
  /\ bkt = [t \in Threads |-> 0]
  /\ cnt = [t \in Threads |-> 0]
  /\ out = [t \in Threads |-> {}]
  /\ cap = [t \in Threads |-> 0]
  /\ ret = [t \in Threads |-> 0]

-----------------------------------------------------------------------------
(* kv_ioctl and _handle_kv_message *)

Goto(t, label) == pc' = [pc EXCEPT ![t] = label]

At(t, label, cmd) == pc[t] = label /\ call[t].cmd = cmd

(* kv_ioctl returns r. *)
Leave(t, r) == ret' = [ret EXCEPT ![t] = r] /\ Goto(t, "done")

(* A handler sets msg->status and msg->value and returns 0. *)
Reply(t, status, value) ==
  /\ reply' = [reply EXCEPT ![t] = [status |-> status, value |-> value]]
  /\ Goto(t, "copyout")

Ioctl(t, c) ==
  /\ pc[t] = "idle"
  /\ call' = [call EXCEPT ![t] = c]
  /\ Goto(t, "dispatch")
  /\ UNCHANGED <<map, reply, walk, ret>>

(* copy_from_user succeeds and the switch selects the handler. *)
Dispatch(t) ==
  /\ pc[t] = "dispatch"
  /\ \/ call[t].cmd \in {"INSERT", "UPDATE"} /\ Goto(t, "lookup")
     \/ call[t].cmd = "GET" /\ Goto(t, "get")
     \/ call[t].cmd = "DELETE" /\ Goto(t, "remove")
     \/ call[t].cmd \in {"COUNT", "SNAPSHOT"} /\ Goto(t, "count")
  /\ UNCHANGED <<map, call, reply, walk, ret>>

(* copy_from_user fails (KV_COUNT copies nothing in), or the command is     *)
(* not one of the switch.                                                   *)
DispatchError(t) ==
  /\ pc[t] = "dispatch"
  /\ \/ call[t].cmd # "COUNT" /\ Leave(t, -EFAULT)
     \/ call[t].cmd = "OTHER" /\ Leave(t, -EINVAL)
  /\ UNCHANGED <<map, call, reply, walk>>

CopyOut(t) ==
  /\ pc[t] = "copyout"
  /\ \/ Leave(t, 0)
     \/ Leave(t, -EFAULT)
  /\ UNCHANGED <<map, call, reply, walk>>

(* Back in user space: the locals of the call are gone. *)
Return(t) ==
  /\ pc[t] = "done"
  /\ Goto(t, "idle")
  /\ call' = [call EXCEPT ![t] = NULL]
  /\ reply' = [reply EXCEPT ![t] = NULL]
  /\ bkt' = [bkt EXCEPT ![t] = 0]
  /\ cnt' = [cnt EXCEPT ![t] = 0]
  /\ out' = [out EXCEPT ![t] = {}]
  /\ cap' = [cap EXCEPT ![t] = 0]
  /\ ret' = [ret EXCEPT ![t] = 0]
  /\ UNCHANGED map

-----------------------------------------------------------------------------
(* _handle_insert, _handle_update, _handle_get, _handle_delete *)

Exists(t) == LookupCode(map, call[t].key) = "OK"

(* Mutant of InsertLookup: the key is not looked up first. *)
InsertLookupBlind(t) ==
  /\ At(t, "lookup", "INSERT")
  /\ Goto(t, "add")
  /\ UNCHANGED <<map, call, reply, walk, ret>>

InsertLookup(t) ==
  /\ At(t, "lookup", "INSERT")
  /\ IF Exists(t) THEN Reply(t, 1, NULL)
                  ELSE Goto(t, "add") /\ UNCHANGED reply
  /\ UNCHANGED <<map, call, walk, ret>>

UpdateLookup(t) ==
  /\ At(t, "lookup", "UPDATE")
  /\ IF Exists(t) THEN Goto(t, "add") /\ UNCHANGED reply
                  ELSE Reply(t, 1, NULL)
  /\ UNCHANGED <<map, call, walk, ret>>

(* kv_hash_add, in both handlers: adds the key or replaces its string. *)
Add(t) ==
  /\ pc[t] = "add"
  /\ map' = [map EXCEPT ![call[t].key] = call[t].value]
  /\ Reply(t, 0, call[t].value)
  /\ UNCHANGED <<call, walk, ret>>

AddNoMem(t) ==
  /\ pc[t] = "add"
  /\ Reply(t, -ENOMEM, NULL)
  /\ UNCHANGED <<map, call, walk, ret>>

Get(t) ==
  /\ pc[t] = "get"
  /\ IF Exists(t) THEN Reply(t, 0, map[call[t].key]) ELSE Reply(t, 1, NULL)
  /\ UNCHANGED <<map, call, walk, ret>>

Delete(t) ==
  /\ pc[t] = "remove"
  /\ map' = [map EXCEPT ![call[t].key] = NULL]
  /\ Reply(t, IF map[call[t].key] = NULL THEN 1 ELSE 0, NULL)
  /\ UNCHANGED <<call, walk, ret>>

-----------------------------------------------------------------------------
(* _handle_kv_count and _handle_kv_snapshot *)

(* The keys that are in chain b. *)
Chain(b) == {k \in Keys : kv_bucket(k) = b /\ map[k] # NULL}

(* Mutant of CountBucket: bucket <= n instead of bucket < n. *)
CountBucketPastEnd(t) ==
  /\ pc[t] = "count"
  /\ bkt[t] <= NumBuckets
  /\ cnt' = [cnt EXCEPT ![t] = @ + Cardinality(Chain(bkt[t]))]
  /\ bkt' = [bkt EXCEPT ![t] = @ + 1]
  /\ UNCHANGED <<map, pc, call, reply, out, cap, ret>>

(* One iteration of kv_hash_count. *)
CountBucket(t) ==
  /\ pc[t] = "count"
  /\ bkt[t] < NumBuckets
  /\ cnt' = [cnt EXCEPT ![t] = @ + Cardinality(Chain(bkt[t]))]
  /\ bkt' = [bkt EXCEPT ![t] = @ + 1]
  /\ UNCHANGED <<map, pc, call, reply, out, cap, ret>>

(* kv_hash_count returns. *)
Counted(t) ==
  /\ pc[t] = "count"
  /\ bkt[t] = NumBuckets
  /\ Goto(t, IF call[t].cmd = "COUNT" THEN "copyout" ELSE "verify")
  /\ UNCHANGED <<map, call, reply, walk, ret>>

(* The count is not the capacity that user space has allocated: it is the   *)
(* return value.                                                            *)
Mismatch(t) ==
  /\ pc[t] = "verify"
  /\ cnt[t] # call[t].capacity
  /\ Leave(t, cnt[t])
  /\ UNCHANGED <<map, call, reply, walk>>

(* kmalloc fails, or kv_hash_snapshot refuses an array of no entries. *)
SnapshotError(t) ==
  /\ pc[t] = "verify"
  /\ cnt[t] = call[t].capacity
  /\ \/ Leave(t, -ENOMEM)
     \/ cnt[t] = 0 /\ Leave(t, -EINVAL)
  /\ UNCHANGED <<map, call, reply, walk>>

(* Mutant of SnapshotAlloc: the count is not compared with the capacity. *)
SnapshotAllocUnchecked(t) ==
  /\ pc[t] = "verify"
  /\ cnt[t] # 0
  /\ bkt' = [bkt EXCEPT ![t] = 0]
  /\ cnt' = [cnt EXCEPT ![t] = 0]
  /\ cap' = [cap EXCEPT ![t] = cnt[t]]
  /\ Goto(t, "copy")
  /\ UNCHANGED <<map, call, reply, out, ret>>

(* snapshot_msg has room for actual_count entries; the copying starts. *)
SnapshotAlloc(t) ==
  /\ pc[t] = "verify"
  /\ cnt[t] = call[t].capacity
  /\ cnt[t] # 0
  /\ bkt' = [bkt EXCEPT ![t] = 0]
  /\ cnt' = [cnt EXCEPT ![t] = 0]
  /\ cap' = [cap EXCEPT ![t] = cnt[t]]
  /\ Goto(t, "copy")
  /\ UNCHANGED <<map, call, reply, out, ret>>

Copied(S) == {[key |-> k, value |-> Strscpy[map[k]]] : k \in S}

(* One iteration of kv_hash_snapshot, with room for the whole chain. *)
SnapshotBucket(t) ==
  /\ pc[t] = "copy"
  /\ bkt[t] < NumBuckets
  /\ LET keys == Chain(bkt[t]) IN
       /\ cnt[t] + Cardinality(keys) <= cap[t]
       /\ out' = [out EXCEPT ![t] = @ \cup Copied(keys)]
       /\ cnt' = [cnt EXCEPT ![t] = @ + Cardinality(keys)]
  /\ bkt' = [bkt EXCEPT ![t] = @ + 1]
  /\ UNCHANGED <<map, pc, call, reply, cap, ret>>

(* The array is full and the chain is not at its end: return early. *)
SnapshotFull(t) ==
  /\ pc[t] = "copy"
  /\ bkt[t] < NumBuckets
  /\ cnt[t] + Cardinality(Chain(bkt[t])) > cap[t]
  /\ \E S \in SUBSET Chain(bkt[t]) :
       /\ cnt[t] + Cardinality(S) = cap[t]
       /\ out' = [out EXCEPT ![t] = @ \cup Copied(S)]
  /\ cnt' = [cnt EXCEPT ![t] = cap[t]]
  /\ Goto(t, "copyout")
  /\ UNCHANGED <<map, call, reply, bkt, cap, ret>>

SnapshotEnd(t) ==
  /\ pc[t] = "copy"
  /\ bkt[t] = NumBuckets
  /\ Goto(t, "copyout")
  /\ UNCHANGED <<map, call, reply, walk, ret>>

-----------------------------------------------------------------------------

Step(t) ==
  \/ Dispatch(t) \/ DispatchError(t) \/ CopyOut(t)
  \/ InsertLookup(t) \/ UpdateLookup(t) \/ Add(t) \/ AddNoMem(t)
  \/ Get(t) \/ Delete(t)
  \/ CountBucket(t) \/ Counted(t)
  \/ Mismatch(t) \/ SnapshotError(t) \/ SnapshotAlloc(t)
  \/ SnapshotBucket(t) \/ SnapshotFull(t) \/ SnapshotEnd(t)

Next ==
  \E t \in Threads :
    \/ \E c \in Calls(t) : Ioctl(t, c)
    \/ Step(t)
    \/ Return(t)

Spec == Init /\ [][Next]_vars

-----------------------------------------------------------------------------
(* Properties. *)

(* The entries that copy_to_user writes fit the array that user space has   *)
(* allocated, and the kernel's own, whatever is inserted between the count  *)
(* and the copying: the capacity check and the room check together bound    *)
(* them (kvlkm.c:287-299, kv_hash.c:281).                                   *)
SnapshotInBounds ==
  \A t \in Threads : pc[t] \in {"copy", "copyout"} /\ call[t].cmd = "SNAPSHOT" =>
    /\ cnt[t] = Cardinality(out[t])
    /\ cnt[t] <= cap[t]
    /\ cnt[t] <= call[t].capacity

(* A call has had its effect when it has a reply, or is over. *)
PhaseOf ==
  [t \in Threads |->
     IF pc[t] = "idle" THEN "idle"
     ELSE IF pc[t] = "done" \/ (pc[t] = "copyout" /\ reply[t] # NULL)
          THEN "ended" ELSE "called"]

Store == INSTANCE KvStore WITH phase <- PhaseOf

(* Threads that do not share keys get the store they expect: INSERT never   *)
(* overwrites, UPDATE never creates, each atomically, although the handlers *)
(* look the key up in one critical section and write it in another.         *)
ImplementsStore == Store!Spec

(* "abort if it already exists" (kvlkm.c:334): an INSERT that reports       *)
(* success has not replaced the string of a key that was there.             *)
InsertNeverOverwrites ==
  [][\A t \in Threads :
       At(t, "add", "INSERT") /\ pc'[t] = "copyout" /\ reply'[t].status = 0
         => map[call[t].key] = NULL]_vars

(* "This should not happen" (kv_hash.c:282): no snapshot that has passed    *)
(* the capacity check meets more entries than it has room for.              *)
SnapshotNeverFull ==
  \A t \in Threads : pc[t] = "copy" /\ bkt[t] < NumBuckets =>
    cnt[t] + Cardinality(Chain(bkt[t])) <= cap[t]

=============================================================================
