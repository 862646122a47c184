------------------------------ MODULE KvModule ------------------------------
(***************************************************************************)
(* Loading and unloading the module (kernel/kvlkm.c: init_module,          *)
(* init_netpoll, cleanup_module; kernel/kv_hash.c: kv_hash_init,           *)
(* kv_hash_destroy), and the processes that open the device meanwhile.     *)
(*                                                                         *)
(* The kernel around it is modelled by what the code relies on: fops.owner *)
(* makes an open file keep the module loaded, and a module whose           *)
(* initialisation fails is freed, whoever has its device open.             *)
(***************************************************************************)
EXTENDS Integers

CONSTANTS
  Users,       \* processes that use the device
  NumBuckets,  \* 1U << bits
  MaxEntries   \* bound: entries in a chain

ASSUME NumBucketsAssumption == NumBuckets \in Nat \ {0}
ASSUME MaxEntriesAssumption == MaxEntries \in Nat

Buckets == 0 .. NumBuckets - 1

VARIABLES
  mpc,    \* the module: "unloaded"; in init_module at "region", "cdev",
          \* "class", "device", "buckets", "locks", "heads", "netpoll"; "loaded";
          \* in cleanup_module at "destroy", "unregister", "send"
  held,   \* the resources that are allocated or registered
  next,   \* the counter of the loops over the buckets
  linked, \* linked[b]: number of entries in the chain of bucket b
  lock,   \* lock[b]: "garbage" (uninitialised memory), "free" or "taken"
  good,   \* good[b]: bucket b was initialised while nobody was at work in it,
          \* so that its chain is a list and its lock excludes; if not, the
          \* chain is whatever the memory held or the clash has made of it
  leaked, \* the resources that are allocated and nobody can release any more
  upc,    \* upc[u]: "closed", "open", "inside" (an ioctl, past the test of
          \* ht->buckets), or "orphan" (open, and the module is freed)
  at,     \* at[u]: the bucket whose lock u has taken, or None
  corrupt,  \* memory was written through a pointer that is garbage
  oops,     \* the kernel has crashed
  early,    \* history: the users who opened the device while it was loading
  touched   \* history: an ioctl came to a bucket before kv_hash_init did

None == -1
table == <<next, linked, lock, good, leaked>>
users == <<upc, at, early, touched>>
vars == <<mpc, held, table, users, corrupt, oops>>

Resources == {"region", "cdev", "class", "device", "buckets", "locks",
              "netpoll", "entries"}
Loading == {"region", "cdev", "class", "device", "buckets", "locks", "heads", "netpoll"}
Unloading == {"destroy", "unregister", "send"}

-----------------------------------------------------------------------------
(* init_module *)

Insmod ==
  /\ mpc = "unloaded"
  /\ mpc' = "region"
  /\ UNCHANGED <<held, table, users, corrupt, oops>>

(* A step of init_module that acquires a resource. *)
Acquire(from, resource, to) ==
  /\ mpc = from
  /\ held' = held \cup {resource}
  /\ mpc' = to
  /\ UNCHANGED <<table, users, corrupt, oops>>

(* The kernel frees the module, and with it all the pointers.  The arrays   *)
(* of the next load are garbage again.                                      *)
FreeModule(released) ==
  /\ mpc' = "unloaded"
  /\ held' = {}
  /\ linked' = [b \in Buckets |-> 0]
  /\ lock' = [b \in Buckets |-> "garbage"]
  /\ good' = [b \in Buckets |-> FALSE]
  /\ leaked' = leaked \cup (held \ released)
                      \cup (IF \E b \in Buckets : linked[b] > 0 THEN {"entries"} ELSE {})

(* return -1, with what was acquired released in the reverse order *)
Fail(from, released) ==
  /\ mpc = from
  /\ FreeModule(released)
  /\ upc' = [u \in Users |-> IF upc[u] = "closed" THEN "closed" ELSE "orphan"]
  /\ UNCHANGED <<next, at, corrupt, oops, early, touched>>

AllocChrdevRegion == Acquire("region", "region", "cdev") \/ Fail("region", {})

CdevAdd == Acquire("cdev", "cdev", "class") \/ Fail("cdev", {"region"})

(* Mutant of ClassCreate: the cdev is not deleted when the class fails. *)
ClassCreateLeak == Acquire("class", "class", "device") \/ Fail("class", {"region"})

ClassCreate == Acquire("class", "class", "device") \/ Fail("class", {"cdev", "region"})

(* device_create returns an ERR_PTR, never NULL: its failure goes unseen.   *)
DeviceCreate ==
  \/ Acquire("device", "device", "buckets")
  \/ mpc = "device" /\ mpc' = "buckets" /\ UNCHANGED <<held, table, users, corrupt, oops>>

Registered == {"device", "class", "cdev", "region"}

(* kv_hash_init: memset and the two arrays *)
AllocBuckets == Acquire("buckets", "buckets", "locks") \/ Fail("buckets", Registered)

AllocLocks ==
  \/ /\ mpc = "locks"
     /\ held' = held \cup {"locks"}
     /\ mpc' = "heads"
     /\ next' = 0
     /\ UNCHANGED <<linked, lock, good, leaked, users, corrupt, oops>>
  \/ Fail("locks", Registered \cup {"buckets"})

(* The users at work in bucket b, between its lock and its unlock. *)
In(b) == {u \in Users : at[u] = b}

(* Mutant of InitHead: <= for < in the loop. *)
InitHeadPastEnd ==
  /\ mpc = "heads"
  /\ next <= NumBuckets
  /\ next' = next + 1
  /\ UNCHANGED <<mpc, held, linked, lock, good, leaked, users, corrupt, oops>>

(* INIT_HLIST_HEAD and spin_lock_init of bucket next, whoever may have      *)
(* taken the lock or have linked an entry before.                           *)
InitHead ==
  /\ mpc = "heads"
  /\ next \in Buckets
  /\ linked' = [linked EXCEPT ![next] = 0]
  /\ leaked' = leaked \cup (IF linked[next] > 0 THEN {"entries"} ELSE {})
  /\ lock' = [lock EXCEPT ![next] = "free"]
  /\ good' = [good EXCEPT ![next] = In(next) = {}]
  /\ next' = next + 1
  /\ UNCHANGED <<mpc, held, users, corrupt, oops>>

InitHeadsDone ==
  /\ mpc = "heads"
  /\ next \notin Buckets
  /\ mpc' = "netpoll"
  /\ UNCHANGED <<held, table, users, corrupt, oops>>

(* init_netpoll: a failure is logged and otherwise ignored. *)
InitNetpoll ==
  \/ Acquire("netpoll", "netpoll", "loaded")
  \/ mpc = "netpoll" /\ mpc' = "loaded" /\ UNCHANGED <<held, table, users, corrupt, oops>>

-----------------------------------------------------------------------------
(* cleanup_module *)

(* Mutant of Rmmod: fops.owner is not set, an open file does not count. *)
RmmodUnowned ==
  /\ mpc = "loaded"
  /\ mpc' = "destroy"
  /\ next' = 0
  /\ UNCHANGED <<held, linked, lock, good, leaked, users, corrupt, oops>>

(* delete_module: refused while a file of the module is open *)
Rmmod ==
  /\ mpc = "loaded"
  /\ \A u \in Users : upc[u] \in {"closed", "orphan"}
  /\ mpc' = "destroy"
  /\ next' = 0
  /\ UNCHANGED <<held, linked, lock, good, leaked, users, corrupt, oops>>

(* What becomes of the rest of memory when a chain is followed: nothing if  *)
(* it is a list.                                                            *)
Follow(b) ==
  IF good[b] THEN UNCHANGED <<leaked, corrupt>>
             ELSE /\ leaked' \in {leaked, leaked \cup {"entries"}}
                  /\ corrupt' \in {corrupt, TRUE}

(* kv_hash_destroy: the entries of one bucket *)
DestroyBucket ==
  /\ mpc = "destroy"
  /\ next \in Buckets
  /\ Follow(next)
  /\ linked' = [linked EXCEPT ![next] = 0]
  /\ next' = next + 1
  /\ UNCHANGED <<mpc, held, lock, good, users, oops>>

(* kfree(ht->buckets); bucket_locks is not freed. *)
DestroyEnd ==
  /\ mpc = "destroy"
  /\ next \notin Buckets
  /\ held' = held \ {"buckets"}
  /\ mpc' = "unregister"
  /\ UNCHANGED <<table, users, corrupt, oops>>

Unregister ==
  /\ mpc = "unregister"
  /\ held' = held \ Registered
  /\ mpc' = "send"
  /\ UNCHANGED <<table, users, corrupt, oops>>

(* netpoll_send_udp follows np.dev, which is NULL if the set-up has failed; *)
(* then netpoll_cleanup, and the kernel frees the module.                   *)
SendAndCleanup ==
  /\ mpc = "send"
  /\ IF "netpoll" \in held
     THEN FreeModule({"netpoll"}) /\ UNCHANGED oops
     ELSE oops' = TRUE /\ UNCHANGED <<mpc, held, linked, lock, good, leaked>>
  /\ UNCHANGED <<next, users, corrupt>>

-----------------------------------------------------------------------------
(* The users of the device *)

(* open: there is a node, and the module is not going away *)
Open(u) ==
  /\ upc[u] = "closed"
  /\ "device" \in held
  /\ mpc \in Loading \cup {"loaded"}
  /\ upc' = [upc EXCEPT ![u] = "open"]
  /\ early' = IF mpc = "loaded" THEN early \ {u} ELSE early \cup {u}
  /\ UNCHANGED <<mpc, held, table, at, touched, corrupt, oops>>

Close(u) ==
  /\ upc[u] = "open"
  /\ upc' = [upc EXCEPT ![u] = "closed"]
  /\ UNCHANGED <<mpc, held, table, at, early, touched, corrupt, oops>>

(* Mutant of Enter: the functions of the table do not test ht->buckets. *)
EnterUnchecked(u) ==
  /\ upc[u] = "open"
  /\ upc' = [upc EXCEPT ![u] = "inside"]
  /\ UNCHANGED <<mpc, held, table, at, early, touched, corrupt, oops>>

(* An ioctl up to the test of ht->buckets.  (Without an array it returns    *)
(* -EINVAL and has no effect.)                                              *)
Enter(u) ==
  /\ upc[u] = "open"
  /\ "buckets" \in held
  /\ upc' = [upc EXCEPT ![u] = "inside"]
  /\ UNCHANGED <<mpc, held, table, at, early, touched, corrupt, oops>>

(* Has kv_hash_init been at bucket b? *)
Initialised(b) ==
  \/ mpc \in {"netpoll", "loaded", "destroy"}
  \/ mpc = "heads" /\ b < next

(* spin_lock: ht->bucket_locks or ht->buckets is NULL still *)
NullArray(u) ==
  /\ upc[u] = "inside" /\ at[u] = None
  /\ ~ {"buckets", "locks"} \subseteq held
  /\ oops' = TRUE
  /\ touched' = (touched \/ "buckets" \in held)
  /\ UNCHANGED <<mpc, held, table, upc, at, early, corrupt>>

(* spin_lock of bucket b.  Garbage may look like a free lock.               *)
Lock(u, b) ==
  /\ upc[u] = "inside" /\ at[u] = None
  /\ {"buckets", "locks"} \subseteq held
  /\ lock[b] # "taken"
  /\ lock' = [lock EXCEPT ![b] = "taken"]
  /\ at' = [at EXCEPT ![u] = b]
  /\ touched' = (touched \/ ~ Initialised(b))
  /\ UNCHANGED <<mpc, held, next, linked, good, leaked, upc, early, corrupt, oops>>

(* Garbage may also look like a lock with a queue, at whose end spin_lock   *)
(* writes.                                                                  *)
QueueOnGarbage(u, b) ==
  /\ upc[u] = "inside" /\ at[u] = None
  /\ {"buckets", "locks"} \subseteq held
  /\ lock[b] = "garbage"
  /\ corrupt' = TRUE
  /\ touched' = TRUE
  /\ UNCHANGED <<mpc, held, table, upc, at, early, oops>>

(* The walk along the chain, the change of it and spin_unlock.  An entry is *)
(* added, or removed, or neither; of a chain that is not a list anything    *)
(* may come.  Then the ioctl returns, or goes on to another bucket or call. *)
Unlock(u, b) ==
  /\ at[u] = b
  /\ \E n \in 0 .. MaxEntries :
       /\ good[b] => n \in linked[b] - 1 .. linked[b] + 1
       /\ linked' = [linked EXCEPT ![b] = n]
  /\ Follow(b)
  /\ lock' = [lock EXCEPT ![b] = "free"]
  /\ at' = [at EXCEPT ![u] = None]
  /\ upc' \in {upc, [upc EXCEPT ![u] = "open"]}
  /\ UNCHANGED <<mpc, held, next, good, early, touched, oops>>

(* An ioctl, its rest, or the close of a file whose module is freed *)
OrphanCrashes(u) ==
  /\ upc[u] = "orphan"
  /\ oops' = TRUE
  /\ UNCHANGED <<mpc, held, table, users, corrupt>>

(* What was overwritten is used: by whom, and when, is open.                *)
Damage ==
  /\ corrupt
  /\ \/ oops' = TRUE /\ UNCHANGED good
     \/ (\E b \in Buckets : good' = [good EXCEPT ![b] = FALSE]) /\ UNCHANGED oops
  /\ UNCHANGED <<mpc, held, next, linked, lock, leaked, users, corrupt>>

-----------------------------------------------------------------------------

Init ==
  /\ mpc = "unloaded"
  /\ held = {}
  /\ next = 0
  /\ linked = [b \in Buckets |-> 0]
  /\ lock = [b \in Buckets |-> "garbage"]
  /\ good = [b \in Buckets |-> FALSE]
  /\ leaked = {}
  /\ upc = [u \in Users |-> "closed"]
  /\ at = [u \in Users |-> None]
  /\ corrupt = FALSE
  /\ oops = FALSE
  /\ early = {}
  /\ touched = FALSE

(* After a crash the machine is started again. *)
Reboot ==
  /\ oops
  /\ mpc' = "unloaded" /\ held' = {} /\ next' = 0
  /\ linked' = [b \in Buckets |-> 0]
  /\ lock' = [b \in Buckets |-> "garbage"]
  /\ good' = [b \in Buckets |-> FALSE]
  /\ leaked' = {}
  /\ upc' = [u \in Users |-> "closed"]
  /\ at' = [u \in Users |-> None]
  /\ corrupt' = FALSE /\ oops' = FALSE
  /\ early' = {} /\ touched' = FALSE

Module ==
  \/ Insmod \/ AllocChrdevRegion \/ CdevAdd \/ ClassCreate \/ DeviceCreate
  \/ AllocBuckets \/ AllocLocks \/ InitHead \/ InitHeadsDone \/ InitNetpoll
  \/ Rmmod \/ DestroyBucket \/ DestroyEnd \/ Unregister \/ SendAndCleanup

User(u) ==
  \/ Open(u) \/ Close(u) \/ Enter(u) \/ NullArray(u) \/ OrphanCrashes(u)
  \/ \E b \in Buckets : Lock(u, b) \/ QueueOnGarbage(u, b) \/ Unlock(u, b)

Next ==
  \/ ~ oops /\ Module
  \/ ~ oops /\ \E u \in Users : User(u)
  \/ ~ oops /\ Damage
  \/ Reboot

Spec == Init /\ [][Next]_vars

-----------------------------------------------------------------------------

TypeOK ==
  /\ mpc \in {"unloaded", "loaded"} \cup Loading \cup Unloading
  /\ held \subseteq Resources /\ leaked \subseteq Resources
  /\ next \in 0 .. NumBuckets
  /\ linked \in [Buckets -> 0 .. MaxEntries]
  /\ lock \in [Buckets -> {"garbage", "free", "taken"}]
  /\ good \in [Buckets -> BOOLEAN]
  /\ upc \in [Users -> {"closed", "open", "inside", "orphan"}]
  /\ at \in [Users -> Buckets \cup {None}]
  /\ corrupt \in BOOLEAN /\ oops \in BOOLEAN /\ touched \in BOOLEAN
  /\ early \subseteq Users

(* A load that fails, wherever it does, leaves nothing registered or        *)
(* allocated behind it, and an unload no more than the array of locks,      *)
(* which kv_hash_destroy forgets (DestroyFreesAll, below): no registration, *)
(* no netpoll and no entry of the table, even if an ioctl ran into          *)
(* kv_hash_init (kvlkm.c:76-121, 148-164).                                  *)
Unwound ==
  [][~ oops /\ mpc # "unloaded" /\ mpc' = "unloaded" =>
       IF mpc = "send" THEN leaked' \subseteq leaked \cup {"locks"}
                       ELSE leaked' = leaked]_vars

(* "Destroy a hash table and free all associated memory" (kv_hash.c:60):    *)
(* cleanup_module is past kv_hash_destroy, and neither the arrays nor an    *)
(* entry is allocated any more.                                             *)
DestroyFreesAll ==
  mpc = "unregister" =>
    {"buckets", "locks"} \cap held = {} /\ \A b \in Buckets : linked[b] = 0

(* Who opens the device of a module that is loaded finds the table ready    *)
(* and keeps it: init_module returns only when every bucket is initialised, *)
(* and an open file keeps cleanup_module away (kvlkm.c:47-50, 113-125).     *)
(* Unless an ioctl came to a bucket before kv_hash_init did, every chain is *)
(* a list and no two processes are at work in the same one, even if the     *)
(* other has the device open since before kv_hash_init.                     *)
ReadyForUsers ==
  \A u \in Users : upc[u] # "closed" /\ u \notin early =>
    /\ mpc = "loaded" /\ {"buckets", "locks"} \subseteq held
    /\ ~ touched => \A b \in Buckets : good[b] /\ \A v, w \in In(b) : v = w

(* A device opened too early does no harm by itself, before kv_hash_init or *)
(* after it.  The kernel can only crash, at once or at any later time, by   *)
(* an ioctl that came to a bucket before kv_hash_init did, by a file that   *)
(* outlived a failed load, or at unload after netpoll_setup had failed      *)
(* (kvlkm.c:100, 113, 133, 160; kv_hash.c:50-54, 117-143).                  *)
Survives ==
  corrupt \/ oops =>
    \/ touched
    \/ \E u \in early : upc[u] = "orphan"
    \/ mpc = "send" /\ "netpoll" \notin held

=============================================================================
