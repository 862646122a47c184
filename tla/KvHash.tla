------------------------------- MODULE KvHash -------------------------------
(***************************************************************************)
(* The in-kernel hash table (kernel/kv_hash.c) after kv_hash_init: an      *)
(* array of buckets, one spinlock per bucket, any number of threads inside *)
(* kv_hash_add, kv_hash_remove, kv_hash_lookup, kv_hash_count and          *)
(* kv_hash_snapshot at once.                                               *)
(*                                                                         *)
(* A step is what a thread does between two points where another thread    *)
(* could see the difference: taking a lock, walking a chain, changing it,  *)
(* releasing the lock.  The pointer e that a chain walk finds is a local   *)
(* (ent) that a later step dereferences, and a string has an address, so   *)
(* that a use after kfree and a leak are states of the model.              *)
(*                                                                         *)
(* A chain is a set of entries: the order in which hlist_add_head links    *)
(* them decides only which entries a snapshot that runs out of room leaves *)
(* out, and that choice is nondeterministic here.                          *)
(***************************************************************************)
EXTENDS KvBase

CONSTANTS
  Ptrs,   \* addresses that kstrdup can return
  Caps    \* the max_entries arguments of the kv_hash_snapshot calls

ASSUME CapsAssumption == Caps \subseteq Nat

(* struct kv_hash_entry: the key and the address of the string. *)
Entries == [key : Keys, value : Ptrs]

ASSUME PtrsAssumption == NULL \notin Ptrs \cup Entries

VARIABLES
  buckets,  \* buckets[b]: the entries linked in chain b
  lock,     \* lock[b]: the thread that holds bucket_locks[b], or NULL
  str,      \* str[p]: the string at address p, or NULL if p is not allocated
  pc,       \* pc[t]: where thread t is in the function it called
  req,      \* req[t]: the function and its arguments
  bkt,      \* bkt[t]: the local variable bucket
  newstr,   \* newstr[t]: the string kv_hash_add has duplicated and still owns
  ent,      \* ent[t]: the local pointer e after the chain walk
  cnt,      \* cnt[t]: the local variable count
  out,      \* out[t]: the entries array that kv_hash_snapshot fills
  ret,      \* ret[t]: the return code
  buf       \* buf[t]: the out_buf of kv_hash_lookup

shared == <<buckets, lock, str>>
vars == <<buckets, lock, str, pc, req, bkt, newstr, ent, cnt, out, ret, buf>>

(* struct kv_message as a snapshot fills it. *)
Messages == [key : Keys, value : Values]

InCS == {"scan", "act", "walk", "unlock", "leave"}
Labels == {"idle", "enter", "lock", "done"} \cup InCS

TypeOK ==
  /\ buckets \in [Buckets -> SUBSET Entries]
  /\ lock \in [Buckets -> Threads \cup {NULL}]
  /\ str \in [Ptrs -> Values \cup {NULL}]
  /\ pc \in [Threads -> Labels]
  /\ req \in [Threads -> Requests(Caps) \cup {NULL}]
  /\ bkt \in [Threads -> Buckets]
  /\ newstr \in [Threads -> Ptrs \cup {NULL}]
  /\ ent \in [Threads -> Entries \cup {NULL}]
  /\ cnt \in [Threads -> Nat]
  /\ out \in [Threads -> SUBSET Messages]
  /\ ret \in [Threads -> Codes \cup {NULL}]
  /\ buf \in [Threads -> Values \cup {NULL}]

(* The table as kv_hash_init leaves it: empty chains, free locks. *)
Init ==
  /\ buckets = [b \in Buckets |-> {}]
  /\ lock = [b \in Buckets |-> NULL]
  /\ str = [p \in Ptrs |-> NULL]
  /\ pc = [t \in Threads |-> "idle"]
  /\ req = [t \in Threads |-> NULL]
  /\ bkt = [t \in Threads |-> 0]
  /\ newstr = [t \in Threads |-> NULL]
  /\ ent = [t \in Threads |-> NULL]
  /\ cnt = [t \in Threads |-> 0]
  /\ out = [t \in Threads |-> {}]
  /\ ret = [t \in Threads |-> NULL]
  /\ buf = [t \in Threads |-> NULL]

-----------------------------------------------------------------------------
(* Control. *)

Goto(t, label) == pc' = [pc EXCEPT ![t] = label]

(* The function will return code; the lock, if held, is still to release. *)
Result(t, code) == ret' = [ret EXCEPT ![t] = code]

(* A caller in kvlkm.c enters one of the functions. *)
Call(t, r) ==
  /\ pc[t] = "idle"
  /\ req' = [req EXCEPT ![t] = r]
  /\ Goto(t, "enter")
  /\ UNCHANGED <<shared, bkt, newstr, ent, cnt, out, ret, buf>>

(* The result has been consumed; the locals of the call are gone. *)
Return(t) ==
  /\ pc[t] = "done"
  /\ Goto(t, "idle")
  /\ req' = [req EXCEPT ![t] = NULL]
  /\ bkt' = [bkt EXCEPT ![t] = 0]
  /\ ent' = [ent EXCEPT ![t] = NULL]
  /\ cnt' = [cnt EXCEPT ![t] = 0]
  /\ out' = [out EXCEPT ![t] = {}]
  /\ Result(t, NULL)
  /\ buf' = [buf EXCEPT ![t] = NULL]
  /\ UNCHANGED <<shared, newstr>>

(* Mutant of Lock: the bucket lock is not waited for. *)
LockNoWait(t) ==
  /\ pc[t] = "lock"
  /\ lock' = [lock EXCEPT ![bkt[t]] = t]
  /\ Goto(t, IF req[t].fn \in WalkFns THEN "walk" ELSE "scan")
  /\ UNCHANGED <<buckets, str, req, bkt, newstr, ent, cnt, out, ret, buf>>

(* spin_lock_irqsave(&ht->bucket_locks[bucket], flags) *)
Lock(t) ==
  /\ pc[t] = "lock"
  /\ lock[bkt[t]] = NULL
  /\ lock' = [lock EXCEPT ![bkt[t]] = t]
  /\ Goto(t, IF req[t].fn \in WalkFns THEN "walk" ELSE "scan")
  /\ UNCHANGED <<buckets, str, req, bkt, newstr, ent, cnt, out, ret, buf>>

(* Mutant of UnlockReturn: a full snapshot returns with the lock held. *)
UnlockReturnForgotten(t) ==
  /\ pc[t] = "leave"
  /\ lock' = IF req[t].fn = "snapshot" THEN lock ELSE [lock EXCEPT ![bkt[t]] = NULL]
  /\ Goto(t, "done")
  /\ ret' = [ret EXCEPT ![t] = IF req[t].fn \in WalkFns THEN "OK" ELSE @]
  /\ UNCHANGED <<buckets, str, req, bkt, newstr, ent, cnt, out, buf>>

(* spin_unlock_irqrestore followed by return *)
UnlockReturn(t) ==
  /\ pc[t] = "leave"
  /\ lock' = [lock EXCEPT ![bkt[t]] = NULL]
  /\ Goto(t, "done")
  /\ ret' = [ret EXCEPT ![t] = IF req[t].fn \in WalkFns THEN "OK" ELSE @]
  /\ UNCHANGED <<buckets, str, req, bkt, newstr, ent, cnt, out, buf>>

(* Mutant of Scan: the lock is released between the walk and the action. *)
ScanThenUnlock(t) ==
  /\ pc[t] = "scan"
  /\ \/ \E e \in buckets[bkt[t]] :
          /\ e.key = req[t].key
          /\ ent' = [ent EXCEPT ![t] = e]
     \/ /\ \A e \in buckets[bkt[t]] : e.key # req[t].key
        /\ ent' = [ent EXCEPT ![t] = NULL]
  /\ lock' = [lock EXCEPT ![bkt[t]] = NULL]
  /\ Goto(t, "act")
  /\ UNCHANGED <<buckets, str, req, bkt, newstr, cnt, out, ret, buf>>

(* hlist_for_each_entry ... if (e->key == key): stops at a matching entry   *)
(* or falls off the end of the chain.                                       *)
Scan(t) ==
  /\ pc[t] = "scan"
  /\ \/ \E e \in buckets[bkt[t]] :
          /\ e.key = req[t].key
          /\ ent' = [ent EXCEPT ![t] = e]
     \/ /\ \A e \in buckets[bkt[t]] : e.key # req[t].key
        /\ ent' = [ent EXCEPT ![t] = NULL]
  /\ Goto(t, "act")
  /\ UNCHANGED <<shared, req, bkt, newstr, cnt, out, ret, buf>>

-----------------------------------------------------------------------------
(* kv_hash_add *)

(* kstrdup before the lock is taken, or its failure. *)
AddDup(t) ==
  /\ pc[t] = "enter"
  /\ req[t].fn = "add"
  /\ \E p \in Ptrs :
       /\ str[p] = NULL
       /\ str' = [str EXCEPT ![p] = req[t].value]
       /\ newstr' = [newstr EXCEPT ![t] = p]
  /\ bkt' = [bkt EXCEPT ![t] = kv_bucket(req[t].key)]
  /\ Goto(t, "lock")
  /\ UNCHANGED <<buckets, lock, req, ent, cnt, out, ret, buf>>

AddDupNoMem(t) ==
  /\ pc[t] = "enter"
  /\ req[t].fn = "add"
  /\ Result(t, "ENOMEM")
  /\ Goto(t, "done")
  /\ UNCHANGED <<shared, req, bkt, newstr, ent, cnt, out, buf>>

(* The thread is in the critical section of fn with the scan behind it. *)
Acting(t, fn) == pc[t] = "act" /\ req[t].fn = fn

(* Mutant of AddUpdate: an existing key keeps its old string. *)
AddUpdateDropped(t) ==
  /\ Acting(t, "add")
  /\ ent[t] # NULL
  /\ str' = [str EXCEPT ![newstr[t]] = NULL]
  /\ newstr' = [newstr EXCEPT ![t] = NULL]
  /\ Result(t, "OK")
  /\ Goto(t, "leave")
  /\ UNCHANGED <<buckets, lock, req, bkt, ent, cnt, out, buf>>

(* kfree(e->value); e->value = newstr *)
AddUpdate(t) ==
  /\ Acting(t, "add")
  /\ ent[t] # NULL
  /\ str' = [str EXCEPT ![ent[t].value] = NULL]
  /\ buckets' = [buckets EXCEPT ![bkt[t]] =
                   (@ \ {ent[t]}) \cup {[key |-> ent[t].key, value |-> newstr[t]]}]
  /\ newstr' = [newstr EXCEPT ![t] = NULL]
  /\ Result(t, "OK")
  /\ Goto(t, "leave")
  /\ UNCHANGED <<lock, req, bkt, ent, cnt, out, buf>>

(* kmalloc of the entry, hlist_add_head *)
AddNew(t) ==
  /\ Acting(t, "add")
  /\ ent[t] = NULL
  /\ buckets' = [buckets EXCEPT ![bkt[t]] =
                   @ \cup {[key |-> req[t].key, value |-> newstr[t]]}]
  /\ newstr' = [newstr EXCEPT ![t] = NULL]
  /\ Result(t, "OK")
  /\ Goto(t, "leave")
  /\ UNCHANGED <<lock, str, req, bkt, ent, cnt, out, buf>>

(* Mutant of AddNewNoMem: kfree(newstr) is missing. *)
AddNewNoMemLeak(t) ==
  /\ Acting(t, "add")
  /\ ent[t] = NULL
  /\ newstr' = [newstr EXCEPT ![t] = NULL]
  /\ Result(t, "ENOMEM")
  /\ Goto(t, "leave")
  /\ UNCHANGED <<buckets, lock, str, req, bkt, ent, cnt, out, buf>>

(* kmalloc of the entry fails: kfree(newstr) *)
AddNewNoMem(t) ==
  /\ Acting(t, "add")
  /\ ent[t] = NULL
  /\ str' = [str EXCEPT ![newstr[t]] = NULL]
  /\ newstr' = [newstr EXCEPT ![t] = NULL]
  /\ Result(t, "ENOMEM")
  /\ Goto(t, "leave")
  /\ UNCHANGED <<buckets, lock, req, bkt, ent, cnt, out, buf>>

-----------------------------------------------------------------------------
(* kv_hash_remove and kv_hash_lookup *)

KeyedEnter(t) ==
  /\ pc[t] = "enter"
  /\ req[t].fn \in {"remove", "lookup"}
  /\ bkt' = [bkt EXCEPT ![t] = kv_bucket(req[t].key)]
  /\ Goto(t, "lock")
  /\ UNCHANGED <<shared, req, newstr, ent, cnt, out, ret, buf>>

(* hlist_del(&e->node); kfree(e->value); kfree(e) *)
RemoveFound(t) ==
  /\ Acting(t, "remove")
  /\ ent[t] # NULL
  /\ buckets' = [buckets EXCEPT ![bkt[t]] = @ \ {ent[t]}]
  /\ str' = [str EXCEPT ![ent[t].value] = NULL]
  /\ Result(t, "OK")
  /\ Goto(t, "leave")
  /\ UNCHANGED <<lock, req, bkt, newstr, ent, cnt, out, buf>>

(* strlen(e->value) against out_buflen, then memcpy to out_buf *)
LookupFound(t) ==
  /\ Acting(t, "lookup")
  /\ ent[t] # NULL
  /\ LET v == str[ent[t].value] IN
       IF Fits(v)
       THEN Result(t, "OK") /\ buf' = [buf EXCEPT ![t] = v]
       ELSE Result(t, "ENOSPC") /\ UNCHANGED buf
  /\ Goto(t, "leave")
  /\ UNCHANGED <<shared, req, bkt, newstr, ent, cnt, out>>

NotFound(t) ==
  /\ pc[t] = "act"
  /\ req[t].fn \in {"remove", "lookup"}
  /\ ent[t] = NULL
  /\ Result(t, "ENOENT")
  /\ Goto(t, "leave")
  /\ UNCHANGED <<shared, req, bkt, newstr, ent, cnt, out, buf>>

-----------------------------------------------------------------------------
(* kv_hash_count and kv_hash_snapshot: for (bucket = 0; bucket < n; ...) *)

(* Mutant of WalkEnter: the loop starts at the second bucket. *)
WalkEnterSkip(t) ==
  /\ pc[t] = "enter"
  /\ req[t].fn \in WalkFns
  /\ ~ (req[t].fn = "snapshot" /\ req[t].max = 0)
  /\ bkt' = [bkt EXCEPT ![t] = NumBuckets - 1]
  /\ Goto(t, "lock")
  /\ UNCHANGED <<shared, req, newstr, ent, cnt, out, ret, buf>>

WalkEnter(t) ==
  /\ pc[t] = "enter"
  /\ req[t].fn \in WalkFns
  /\ ~ (req[t].fn = "snapshot" /\ req[t].max = 0)
  /\ Goto(t, "lock")
  /\ UNCHANGED <<shared, req, bkt, newstr, ent, cnt, out, ret, buf>>

SnapshotInvalid(t) ==
  /\ pc[t] = "enter"
  /\ req[t].fn = "snapshot"
  /\ req[t].max = 0
  /\ Result(t, "EINVAL")
  /\ Goto(t, "done")
  /\ UNCHANGED <<shared, req, bkt, newstr, ent, cnt, out, buf>>

(* Mutant of CountBucket: the count starts again in every bucket. *)
CountBucketReset(t) ==
  /\ pc[t] = "walk"
  /\ req[t].fn = "count"
  /\ cnt' = [cnt EXCEPT ![t] = Cardinality(buckets[bkt[t]])]
  /\ Goto(t, "unlock")
  /\ UNCHANGED <<shared, req, bkt, newstr, ent, out, ret, buf>>

CountBucket(t) ==
  /\ pc[t] = "walk"
  /\ req[t].fn = "count"
  /\ cnt' = [cnt EXCEPT ![t] = @ + Cardinality(buckets[bkt[t]])]
  /\ Goto(t, "unlock")
  /\ UNCHANGED <<shared, req, bkt, newstr, ent, out, ret, buf>>

(* Mutant of Copy: the key of one entry with the string of another. *)
CopyCrossed(e) ==
  LET others == {p \in Ptrs : str[p] # NULL /\ p # e.value}
      q == IF others = {} THEN e.value ELSE CHOOSE p \in others : TRUE
  IN  [key |-> e.key, value |-> Strscpy[str[q]]]

(* What one iteration of the snapshot loop stores for entry e. *)
Copy(e) == [key |-> e.key, value |-> Strscpy[str[e.value]]]

(* Mutant of Room: count > max_entries instead of count >= max_entries. *)
RoomOffByOne(t) == req[t].max - cnt[t] + 1

(* How many more entries fit in the output array. *)
Room(t) == req[t].max - cnt[t]

SnapshotBucket(t) ==
  /\ pc[t] = "walk"
  /\ req[t].fn = "snapshot"
  /\ Cardinality(buckets[bkt[t]]) <= Room(t)
  /\ out' = [out EXCEPT ![t] = @ \cup {Copy(e) : e \in buckets[bkt[t]]}]
  /\ cnt' = [cnt EXCEPT ![t] = @ + Cardinality(buckets[bkt[t]])]
  /\ Goto(t, "unlock")
  /\ UNCHANGED <<shared, req, bkt, newstr, ent, ret, buf>>

(* count >= max_entries with entries left in the chain: stop here *)
SnapshotFull(t) ==
  /\ pc[t] = "walk"
  /\ req[t].fn = "snapshot"
  /\ Cardinality(buckets[bkt[t]]) > Room(t)
  /\ \E S \in SUBSET buckets[bkt[t]] :
       /\ Cardinality(S) = Room(t)
       /\ out' = [out EXCEPT ![t] = @ \cup {Copy(e) : e \in S}]
  /\ cnt' = [cnt EXCEPT ![t] = req[t].max]
  /\ Goto(t, "leave")
  /\ UNCHANGED <<shared, req, bkt, newstr, ent, ret, buf>>

(* Mutant of UnlockNext: bucket <= n instead of bucket < n. *)
UnlockNextPastEnd(t) ==
  /\ pc[t] = "unlock"
  /\ lock' = [lock EXCEPT ![bkt[t]] = NULL]
  /\ IF bkt[t] + 1 <= NumBuckets
     THEN bkt' = [bkt EXCEPT ![t] = @ + 1] /\ Goto(t, "lock") /\ UNCHANGED ret
     ELSE Result(t, "OK") /\ Goto(t, "done") /\ UNCHANGED bkt
  /\ UNCHANGED <<buckets, str, req, newstr, ent, cnt, out, buf>>

(* spin_unlock_irqrestore at the end of an iteration, bucket++ *)
UnlockNext(t) ==
  /\ pc[t] = "unlock"
  /\ lock' = [lock EXCEPT ![bkt[t]] = NULL]
  /\ IF bkt[t] + 1 < NumBuckets
     THEN bkt' = [bkt EXCEPT ![t] = @ + 1] /\ Goto(t, "lock") /\ UNCHANGED ret
     ELSE Result(t, "OK") /\ Goto(t, "done") /\ UNCHANGED bkt
  /\ UNCHANGED <<buckets, str, req, newstr, ent, cnt, out, buf>>

-----------------------------------------------------------------------------

(* A step of thread t inside the function it has called. *)
Step(t) ==
  \/ AddDup(t) \/ AddDupNoMem(t) \/ KeyedEnter(t) \/ WalkEnter(t) \/ SnapshotInvalid(t)
  \/ Scan(t)
  \/ AddUpdate(t) \/ AddNew(t) \/ AddNewNoMem(t)
  \/ RemoveFound(t) \/ LookupFound(t) \/ NotFound(t)
  \/ CountBucket(t) \/ SnapshotBucket(t) \/ SnapshotFull(t)
  \/ UnlockReturn(t) \/ UnlockNext(t)

Next ==
  \E t \in Threads :
    \/ \E r \in Requests(Caps) : Call(t, r)
    \/ Lock(t)
    \/ Step(t)
    \/ Return(t)

Spec == Init /\ [][Next]_vars

-----------------------------------------------------------------------------
(* Safety. *)

(* Every string that an entry or an unfinished kv_hash_add refers to is     *)
(* allocated: no chain holds a pointer that kfree has already taken.        *)
NoDangling ==
  /\ \A b \in Buckets : \A e \in buckets[b] : str[e.value] # NULL
  /\ \A t \in Threads : newstr[t] # NULL => str[newstr[t]] # NULL

(* No string has two owners, so that no kfree can hit a string that is      *)
(* still in use elsewhere.                                                  *)
NoSharing ==
  /\ \A b1, b2 \in Buckets : \A e1 \in buckets[b1], e2 \in buckets[b2] :
       e1.value = e2.value => b1 = b2 /\ e1 = e2
  /\ \A t1, t2 \in Threads :
       newstr[t1] # NULL /\ newstr[t1] = newstr[t2] => t1 = t2
  /\ \A t \in Threads, b \in Buckets : \A e \in buckets[b] : newstr[t] # e.value

(* An allocated string is always reachable: from a chain, or from the       *)
(* kv_hash_add that has not linked or freed it yet.                         *)
NoLeak ==
  \A p \in Ptrs : str[p] # NULL =>
    \/ \E b \in Buckets : \E e \in buckets[b] : e.value = p
    \/ \E t \in Threads : newstr[t] = p

(* Memory safety of kv_hash_add and kv_hash_remove on all their paths, the  *)
(* two -ENOMEM ones included: each allocated string has exactly one owner,  *)
(* and only allocated strings are owned (kv_hash.c:110-124,135, 170-172).   *)
StringsOwned == NoDangling /\ NoSharing /\ NoLeak

(* An entry is in the chain that kv_bucket selects for its key, and a key   *)
(* has at most one entry: two kv_hash_add calls for a new key never both    *)
(* link one, although each scans first and links later.                     *)
OneEntryPerKey ==
  \A b \in Buckets : \A e1 \in buckets[b] :
    /\ kv_bucket(e1.key) = b
    /\ \A e2 \in buckets[b] : e1.key = e2.key => e1 = e2

(* What a chain walk found is still true when the function acts on it: the  *)
(* entry e is still linked (hlist_del, kfree and memcpy do not touch freed  *)
(* memory), or the key is still absent (hlist_add_head links no duplicate). *)
FoundStillLinked ==
  \A t \in Threads : pc[t] = "act" =>
    IF ent[t] = NULL
    THEN \A e \in buckets[bkt[t]] : e.key # req[t].key
    ELSE ent[t] \in buckets[bkt[t]] /\ ent[t].key = req[t].key

-----------------------------------------------------------------------------
(* Refinement: the table implements the map of KvMap. *)

EntryOf(k) == CHOOSE e \in buckets[kv_bucket(k)] : e.key = k

MapOf ==
  [k \in Keys |-> IF \E e \in buckets[kv_bucket(k)] : e.key = k
                  THEN str[EntryOf(k).value] ELSE NULL]

(* A keyed call takes effect when it acts, a walk when it is over. *)
PhaseOf ==
  [t \in Threads |->
     IF pc[t] = "idle" THEN "idle"
     ELSE IF pc[t] = "done" \/ (pc[t] = "leave" /\ req[t].fn \in KeyedFns)
          THEN "effected" ELSE "called"]

Map == INSTANCE KvMap WITH map <- MapOf, phase <- PhaseOf

(* kv_hash_add, kv_hash_remove and kv_hash_lookup are linearizable: every   *)
(* behaviour of the table is one of the atomic map, with the same return    *)
(* codes and looked-up strings.                                             *)
ImplementsMap == Map!Spec

=============================================================================
