--------------------------- MODULE KvModuleProofs ---------------------------
(***************************************************************************)
(* Machine-checked proofs about KvModule, for every set of processes and   *)
(* every size of the table.                                                *)
(*                                                                         *)
(* What a failed load or an unload leaves behind depends on what is held   *)
(* at that point of init_module or cleanup_module (HeldAt), on which       *)
(* chains can have entries (EntriesAt), and on where the module can be     *)
(* while a process has the device open or is in an ioctl (UsersAt).  That  *)
(* nothing is damaged unless an ioctl came to a bucket too early rests on  *)
(* the exclusion the locks then give (SoundAt).                            *)
(***************************************************************************)
EXTENDS KvModule, TLAPS

(* The resources the module has at each point, at least and at most. *)
HeldAt ==
  /\ mpc \in {"unloaded", "region"} => held = {}
  /\ mpc = "cdev" => held = {"region"}
  /\ mpc = "class" => held = {"region", "cdev"}
  /\ mpc = "device" => held = {"region", "cdev", "class"}
  /\ mpc = "buckets" => held \subseteq Registered
  /\ mpc = "locks" => "buckets" \in held /\ held \subseteq Registered \cup {"buckets"}
  /\ mpc \in {"heads", "netpoll", "loaded", "destroy"} => {"buckets", "locks"} \subseteq held
  /\ mpc = "unregister" => "buckets" \notin held
  /\ mpc = "send" => held \subseteq {"locks", "netpoll"}
  /\ "entries" \notin held

(* Chains have entries only from the first spin_lock that is possible until *)
(* kv_hash_destroy has come to them.                                        *)
EntriesAt ==
  \A b \in Buckets :
    linked[b] > 0 => mpc \in {"heads", "netpoll", "loaded"} \/ (mpc = "destroy" /\ next <= b)

(* Where the module can be, given what a process does. *)
UsersAt ==
  \A u \in Users :
    /\ upc[u] \in {"open", "inside"} => mpc \in Loading \cup {"loaded"}
    /\ upc[u] = "inside" => "buckets" \in held
    /\ at[u] # None => upc[u] = "inside" /\ mpc \in {"heads", "netpoll", "loaded"}
    /\ upc[u] = "orphan" => u \in early
    /\ upc[u] # "closed" /\ u \notin early => mpc = "loaded"

(* As long as no ioctl came to a bucket before kv_hash_init did, no memory  *)
(* is overwritten, nobody is at work in a bucket that is not initialised,   *)
(* and in the others the lock excludes.                                     *)
SoundAt ==
  ~ touched =>
    /\ ~ corrupt
    /\ \A b \in Buckets :
         IF Initialised(b)
         THEN /\ good[b]
              /\ \A u \in Users : at[u] = b => lock[b] = "taken"
              /\ \A u, v \in Users : at[u] = b /\ at[v] = b => u = v
         ELSE \A u \in Users : at[u] # b

IInv == TypeOK /\ HeldAt /\ EntriesAt /\ UsersAt /\ SoundAt /\ Survives

-----------------------------------------------------------------------------

(* A load can only fail before a process can have linked an entry or taken  *)
(* a lock; what is released then is all there is.                           *)
LEMMA FailStep ==
  ASSUME IInv, ~ oops, NEW from \in {"region", "cdev", "class", "buckets", "locks"},
         NEW released, held \subseteq released, Fail(from, released)
  PROVE  IInv' /\ leaked' = leaked
<1> USE DEF Fail, FreeModule
<1>1. leaked' = leaked
  <2>1. \A b \in Buckets : ~ linked[b] > 0
    BY DEF IInv, EntriesAt
  <2> QED
    BY <2>1
<1>2. TypeOK'
  BY <1>1, MaxEntriesAssumption DEF IInv, TypeOK
<1>3. HeldAt'
  BY DEF HeldAt
<1>4. EntriesAt'
  BY DEF EntriesAt
<1>5. \A u \in Users : at'[u] = None
  BY DEF IInv, UsersAt
<1>6. UsersAt'
  BY <1>5 DEF IInv, TypeOK, UsersAt, Loading
<1>7. SoundAt'
  BY <1>5 DEF IInv, SoundAt, Initialised, Buckets, None
<1>8. Survives'
  BY <1>7 DEF IInv, SoundAt, Survives
<1> QED
  BY <1>1, <1>2, <1>3, <1>4, <1>6, <1>7, <1>8 DEF IInv

(* The steps of init_module that acquire a resource, or miss it unseen.     *)
LEMMA AcquireStep ==
  ASSUME IInv, ~ oops, NEW from, NEW to, NEW held1 \in SUBSET Resources,
         <<from, held1, to>> \in
           {<<"region", held \cup {"region"}, "cdev">>,
            <<"cdev", held \cup {"cdev"}, "class">>,
            <<"class", held \cup {"class"}, "device">>,
            <<"device", held, "buckets">>,
            <<"device", held \cup {"device"}, "buckets">>,
            <<"buckets", held \cup {"buckets"}, "locks">>},
         mpc = from, held' = held1, mpc' = to,
         UNCHANGED <<table, users, corrupt, oops>>
  PROVE  IInv'
<1> USE DEF IInv, table, users
<1>1. TypeOK'
  BY DEF TypeOK, Loading
<1>2. HeldAt'
  BY DEF HeldAt, Registered
<1>3. EntriesAt'
  BY DEF EntriesAt
<1>4. UsersAt'
  BY DEF UsersAt, Loading
<1>5. SoundAt'
  BY DEF SoundAt, Initialised
<1>6. Survives'
  BY DEF SoundAt, Survives
<1> QED
  BY <1>1, <1>2, <1>3, <1>4, <1>5, <1>6

(* Every step of init_module and cleanup_module keeps the invariant, and    *)
(* the ones that end in an unloaded module leave behind what Unwound says.  *)
LEMMA ModuleStep ==
  ASSUME IInv, ~ oops, Module
  PROVE  /\ IInv'
         /\ mpc # "unloaded" /\ mpc' = "unloaded" =>
              IF mpc = "send" THEN leaked' \subseteq leaked \cup {"locks"}
                              ELSE leaked' = leaked
<1> USE DEF IInv, table, users
<1>1. CASE Insmod
  BY <1>1 DEF Insmod, TypeOK, HeldAt, EntriesAt, UsersAt, SoundAt, Survives, Initialised, Loading
<1>2. CASE AllocChrdevRegion
  <2>1. CASE Acquire("region", "region", "cdev")
    BY <2>1, AcquireStep DEF Acquire, TypeOK, Resources
  <2>2. CASE Fail("region", {})
    BY <2>2, FailStep DEF Fail, HeldAt
  <2> QED
    BY <1>2, <2>1, <2>2 DEF AllocChrdevRegion, Acquire
<1>3. CASE CdevAdd
  <2>1. CASE Acquire("cdev", "cdev", "class")
    BY <2>1, AcquireStep DEF Acquire, TypeOK, Resources
  <2>2. CASE Fail("cdev", {"region"})
    BY <2>2, FailStep DEF Fail, HeldAt
  <2> QED
    BY <1>3, <2>1, <2>2 DEF CdevAdd, Acquire
<1>4. CASE ClassCreate
  <2>1. CASE Acquire("class", "class", "device")
    BY <2>1, AcquireStep DEF Acquire, TypeOK, Resources
  <2>2. CASE Fail("class", {"cdev", "region"})
    BY <2>2, FailStep DEF Fail, HeldAt
  <2> QED
    BY <1>4, <2>1, <2>2 DEF ClassCreate, Acquire
<1>5. CASE DeviceCreate
  <2>1. CASE Acquire("device", "device", "buckets")
    BY <2>1, AcquireStep DEF Acquire, TypeOK, Resources
  <2>2. CASE mpc = "device" /\ mpc' = "buckets" /\ UNCHANGED <<held, table, users, corrupt, oops>>
    BY <2>2, AcquireStep DEF TypeOK
  <2> QED
    BY <1>5, <2>1, <2>2 DEF DeviceCreate, Acquire
<1>6. CASE AllocBuckets
  <2>1. CASE Acquire("buckets", "buckets", "locks")
    BY <2>1, AcquireStep DEF Acquire, TypeOK, Resources
  <2>2. CASE Fail("buckets", Registered)
    BY <2>2, FailStep DEF Fail, HeldAt
  <2> QED
    BY <1>6, <2>1, <2>2 DEF AllocBuckets, Acquire
<1>7. CASE AllocLocks
  <2>1. CASE Fail("locks", Registered \cup {"buckets"})
    BY <2>1, FailStep DEF Fail, HeldAt
  <2>2. CASE /\ mpc = "locks" /\ mpc' = "heads"
             /\ held' = held \cup {"locks"} /\ next' = 0
             /\ UNCHANGED <<linked, lock, good, leaked, users, corrupt, oops>>
    <3>1. TypeOK'
      BY <2>2, NumBucketsAssumption DEF TypeOK, Loading, Resources
    <3>2. HeldAt' /\ EntriesAt' /\ UsersAt' /\ Survives'
      BY <2>2 DEF HeldAt, EntriesAt, UsersAt, SoundAt, Survives, Loading
    <3>3. SoundAt'
      BY <2>2 DEF SoundAt, UsersAt, Initialised, Buckets, None
    <3> QED
      BY <2>2, <3>1, <3>2, <3>3
  <2> QED
    BY <1>7, <2>1, <2>2 DEF AllocLocks
<1>8. CASE InitHead
  <2> USE <1>8 DEF InitHead
  <2>1. TypeOK'
    BY NumBucketsAssumption, MaxEntriesAssumption DEF TypeOK, Buckets, Resources
  <2>2. HeldAt' /\ UsersAt' /\ Survives'
    BY DEF HeldAt, UsersAt, Survives, SoundAt
  <2>3. EntriesAt'
    BY DEF EntriesAt, TypeOK
  <2>4. SoundAt'
    <3> SUFFICES ASSUME ~ touched, NEW b \in Buckets
                 PROVE  ~ corrupt /\ (IF Initialised(b)'
                          THEN /\ good'[b]
                               /\ \A u \in Users : at[u] = b => lock'[b] = "taken"
                               /\ \A u, v \in Users : at[u] = b /\ at[v] = b => u = v
                          ELSE \A u \in Users : at[u] # b)
      BY DEF SoundAt
    <3>1. CASE b = next
      <4>1. \A u \in Users : at[u] # b
        BY <3>1 DEF SoundAt, Initialised, Buckets
      <4>2. good'[b]
        BY <3>1, <4>1 DEF In, TypeOK
      <4> QED
        BY <4>1, <4>2 DEF SoundAt
    <3>2. CASE b # next
      <4>1. Initialised(b)' <=> Initialised(b)
        BY <3>2 DEF Initialised, Buckets, TypeOK
      <4>2. lock'[b] = lock[b] /\ good'[b] = good[b]
        BY <3>2 DEF TypeOK
      <4> QED
        BY <4>1, <4>2 DEF SoundAt
    <3> QED
      BY <3>1, <3>2
  <2> QED
    BY <2>1, <2>2, <2>3, <2>4
<1>9. CASE InitHeadsDone
  <2>1. \A b \in Buckets : Initialised(b)' /\ Initialised(b)
    BY <1>9, NumBucketsAssumption DEF InitHeadsDone, Initialised, Buckets, TypeOK
  <2>2. SoundAt'
    BY <1>9, <2>1 DEF InitHeadsDone, SoundAt
  <2> QED
    BY <1>9, <2>2 DEF InitHeadsDone, TypeOK, HeldAt, EntriesAt, UsersAt, Survives, SoundAt, Loading
<1>10. CASE InitNetpoll
  <2>1. /\ mpc = "netpoll" /\ mpc' = "loaded" /\ held \subseteq held'
        /\ held' \subseteq held \cup {"netpoll"}
        /\ UNCHANGED <<next, linked, lock, good, leaked, upc, at, early, touched, corrupt, oops>>
    BY <1>10 DEF InitNetpoll, Acquire
  <2>2. TypeOK' /\ HeldAt'
    BY <2>1 DEF TypeOK, HeldAt, Resources
  <2>3. EntriesAt' /\ UsersAt' /\ SoundAt' /\ Survives'
    BY <2>1 DEF EntriesAt, UsersAt, SoundAt, Survives, Initialised
  <2> QED
    BY <2>1, <2>2, <2>3
<1>11. CASE Rmmod
  <2>1. TypeOK' /\ HeldAt' /\ Survives'
    BY <1>11, NumBucketsAssumption DEF Rmmod, TypeOK, HeldAt, Survives, SoundAt, Unloading
  <2>2. EntriesAt'
    BY <1>11 DEF Rmmod, EntriesAt, Buckets
  <2>3. UsersAt' /\ SoundAt'
    BY <1>11 DEF Rmmod, UsersAt, SoundAt, Initialised
  <2> QED
    BY <1>11, <2>1, <2>2, <2>3 DEF Rmmod
<1>12. CASE DestroyBucket
  <2> USE <1>12 DEF DestroyBucket
  <2>1. TypeOK'
    <3>1. leaked' \subseteq Resources /\ corrupt' \in BOOLEAN
      BY DEF Follow, TypeOK, Resources
    <3> QED
      BY <3>1, NumBucketsAssumption, MaxEntriesAssumption DEF TypeOK, Buckets
  <2>2. HeldAt' /\ UsersAt'
    BY DEF HeldAt, UsersAt
  <2>3. EntriesAt'
    BY DEF EntriesAt, TypeOK, Buckets
  <2>4. ~ touched => ~ corrupt'
    BY DEF SoundAt, Initialised, Follow
  <2>5. SoundAt' /\ Survives'
    BY <2>4 DEF SoundAt, Survives, Initialised
  <2> QED
    BY <2>1, <2>2, <2>3, <2>5
<1>13. CASE DestroyEnd
  <2>1. TypeOK' /\ HeldAt' /\ UsersAt' /\ Survives'
    BY <1>13 DEF DestroyEnd, TypeOK, HeldAt, UsersAt, Survives, SoundAt, Loading, Unloading
  <2>3. EntriesAt'
    BY <1>13, NumBucketsAssumption DEF DestroyEnd, TypeOK, EntriesAt, Buckets
  <2>2. SoundAt'
    BY <1>13 DEF DestroyEnd, UsersAt, SoundAt, Initialised, Buckets, None
  <2> QED
    BY <1>13, <2>1, <2>2, <2>3 DEF DestroyEnd
<1>14. CASE Unregister
  <2>1. TypeOK' /\ HeldAt'
    BY <1>14 DEF Unregister, TypeOK, HeldAt, Registered, Resources, Unloading
  <2>2. EntriesAt' /\ UsersAt' /\ SoundAt' /\ Survives'
    BY <1>14 DEF Unregister, EntriesAt, UsersAt, SoundAt, Survives, Initialised, Loading
  <2> QED
    BY <1>14, <2>1, <2>2 DEF Unregister
<1>15. CASE SendAndCleanup
  <2>1. CASE "netpoll" \in held
    <3>1. FreeModule({"netpoll"}) /\ UNCHANGED <<next, upc, at, early, touched, corrupt, oops>>
      BY <1>15, <2>1 DEF SendAndCleanup
    <3>2. mpc = "send" /\ \A b \in Buckets : ~ linked[b] > 0
      BY <1>15 DEF SendAndCleanup, EntriesAt
    <3>3. leaked' = leaked \cup (held \ {"netpoll"})
      BY <3>1, <3>2 DEF FreeModule
    <3>4. leaked' \subseteq leaked \cup {"locks"}
      BY <3>2, <3>3 DEF HeldAt
    <3>5. TypeOK'
      BY <3>1, <3>3, MaxEntriesAssumption DEF FreeModule, TypeOK
    <3>6. HeldAt' /\ EntriesAt'
      BY <3>1 DEF FreeModule, HeldAt, EntriesAt
    <3>7. UsersAt'
      BY <3>1, <3>2 DEF FreeModule, UsersAt, TypeOK, Loading
    <3>8. SoundAt' /\ Survives'
      BY <3>1, <3>2 DEF FreeModule, SoundAt, Survives, UsersAt, Initialised, Buckets, None
    <3> QED
      BY <3>2, <3>4, <3>5, <3>6, <3>7, <3>8
  <2>2. CASE "netpoll" \notin held
    BY <1>15, <2>2 DEF SendAndCleanup, TypeOK, HeldAt, EntriesAt, UsersAt, SoundAt, Survives, Initialised
  <2> QED
    BY <2>1, <2>2
<1> QED
  BY <1>1, <1>2, <1>3, <1>4, <1>5, <1>6, <1>7, <1>8, <1>9,
     <1>10, <1>11, <1>12, <1>13, <1>14, <1>15 DEF Module

(* Every step of a process that uses the device keeps the invariant. *)
LEMMA UserStep ==
  ASSUME IInv, ~ oops, NEW u \in Users, User(u)
  PROVE  IInv' /\ mpc' = mpc
<1> USE DEF IInv, table, users
<1>1. CASE Open(u)
  <2>1. TypeOK' /\ HeldAt' /\ EntriesAt' /\ SoundAt'
    BY <1>1 DEF Open, TypeOK, HeldAt, EntriesAt, SoundAt, Initialised
  <2>2. UsersAt' /\ Survives'
    BY <1>1 DEF Open, TypeOK, UsersAt, SoundAt, Survives, Loading
  <2> QED
    BY <1>1, <2>1, <2>2 DEF Open
<1>2. CASE Close(u)
  BY <1>2 DEF Close, TypeOK, HeldAt, EntriesAt, UsersAt, SoundAt, Survives, Initialised
<1>3. CASE Enter(u)
  BY <1>3 DEF Enter, TypeOK, HeldAt, EntriesAt, UsersAt, SoundAt, Survives, Initialised
<1>4. CASE OrphanCrashes(u)
  BY <1>4 DEF OrphanCrashes, TypeOK, HeldAt, EntriesAt, UsersAt, SoundAt, Survives, Initialised
<1>5. CASE NullArray(u)
  <2>1. touched'
    BY <1>5 DEF NullArray, UsersAt
  <2> QED
    BY <1>5, <2>1 DEF NullArray, TypeOK, HeldAt, EntriesAt, UsersAt, SoundAt, Survives
<1>6. ASSUME NEW b \in Buckets, Lock(u, b) PROVE IInv' /\ mpc' = mpc
  <2> USE <1>6 DEF Lock
  <2>1. TypeOK' /\ HeldAt' /\ EntriesAt'
    BY DEF TypeOK, HeldAt, EntriesAt
  <2>2. mpc \in {"heads", "netpoll", "loaded"}
    BY DEF UsersAt, HeldAt, Loading, Registered
  <2>3. UsersAt' /\ Survives'
    BY <2>2 DEF UsersAt, SoundAt, Survives, TypeOK
  <2>4. SoundAt'
    <3> SUFFICES ASSUME ~ touched' PROVE SoundAt'
      BY DEF SoundAt
    <3>1. ~ touched /\ Initialised(b)
      OBVIOUS
    <3>2. \A v \in Users : at[v] # b
      BY <3>1 DEF SoundAt
    <3>3. \A v \in Users : at'[v] = IF v = u THEN b ELSE at[v]
      BY DEF TypeOK
    <3>4. \A c \in Buckets : lock'[c] = IF c = b THEN "taken" ELSE lock[c]
      BY DEF TypeOK
    <3>5. \A c \in Buckets : Initialised(c)' <=> Initialised(c)
      BY DEF Initialised
    <3> QED
      BY <3>1, <3>2, <3>3, <3>4, <3>5 DEF SoundAt
  <2> QED
    BY <2>1, <2>3, <2>4
<1>7. ASSUME NEW b \in Buckets, QueueOnGarbage(u, b) PROVE IInv' /\ mpc' = mpc
  BY <1>7 DEF QueueOnGarbage, TypeOK, HeldAt, EntriesAt, UsersAt, SoundAt, Survives
<1>8. ASSUME NEW b \in Buckets, Unlock(u, b) PROVE IInv' /\ mpc' = mpc
  <2> USE <1>8 DEF Unlock
  <2>1. TypeOK'
    <3>1. leaked' \subseteq Resources /\ corrupt' \in BOOLEAN
      <4>1. Follow(b)
        OBVIOUS
      <4> HIDE <1>8
      <4> QED
        BY <4>1 DEF Follow, TypeOK, Resources
    <3>2. linked' \in [Buckets -> 0 .. MaxEntries]
      BY DEF TypeOK
    <3>3. upc' \in [Users -> {"closed", "open", "inside", "orphan"}]
      BY DEF TypeOK
    <3> QED
      BY <3>1, <3>2, <3>3 DEF TypeOK
  <2>2. upc[u] = "inside" /\ mpc \in {"heads", "netpoll", "loaded"}
    BY DEF UsersAt, Buckets, None
  <2>3. \A v \in Users : at'[v] = IF v = u THEN None ELSE at[v]
    BY DEF TypeOK
  <2>4. HeldAt' /\ EntriesAt'
    BY <2>2 DEF HeldAt, EntriesAt
  <2>5. UsersAt'
    BY <2>2, <2>3 DEF UsersAt, TypeOK, Loading
  <2>6. ~ touched => ~ corrupt' /\ good[b] /\ \A v \in Users : at[v] = b => v = u
    BY DEF SoundAt, Follow
  <2>7. SoundAt'
    <3>1. \A c \in Buckets : Initialised(c)' <=> Initialised(c)
      BY DEF Initialised
    <3>2. \A c \in Buckets : lock'[c] = IF c = b THEN "free" ELSE lock[c]
      BY DEF TypeOK
    <3>3. \A c \in Buckets : None # c
      BY DEF Buckets, None
    <3> QED
      BY <2>3, <2>6, <3>1, <3>2, <3>3 DEF SoundAt
  <2>8. Survives'
    BY <2>2, <2>6 DEF Survives, SoundAt
  <2> QED
    BY <2>1, <2>4, <2>5, <2>7, <2>8
<1> QED
  BY <1>1, <1>2, <1>3, <1>4, <1>5, <1>6, <1>7, <1>8 DEF User

(* So does what comes of overwritten memory. *)
LEMMA DamageStep ==
  ASSUME IInv, ~ oops, Damage
  PROVE  IInv' /\ mpc' = mpc
<1> USE DEF IInv, Damage, users
<1>1. touched
  BY DEF SoundAt
<1>2. TypeOK'
  <2>1. good' \in [Buckets -> BOOLEAN] /\ oops' \in BOOLEAN
    BY DEF TypeOK
  <2> QED
    BY <2>1 DEF TypeOK
<1>3. HeldAt' /\ EntriesAt' /\ UsersAt' /\ SoundAt' /\ Survives'
  BY <1>1 DEF HeldAt, EntriesAt, UsersAt, SoundAt, Survives
<1> QED
  BY <1>2, <1>3

(* It holds at the start, *)
LEMMA InitIInv == Init => IInv
<1> SUFFICES ASSUME Init PROVE IInv
  OBVIOUS
<1> USE DEF Init
<1>1. TypeOK
  <2>1. corrupt \in BOOLEAN /\ oops \in BOOLEAN /\ touched \in BOOLEAN
    OBVIOUS
  <2>2. next \in 0 .. NumBuckets /\ linked \in [Buckets -> 0 .. MaxEntries]
    BY NumBucketsAssumption, MaxEntriesAssumption
  <2>3. /\ upc \in [Users -> {"closed", "open", "inside", "orphan"}]
        /\ lock \in [Buckets -> {"garbage", "free", "taken"}]
        /\ good \in [Buckets -> BOOLEAN]
        /\ at \in [Users -> Buckets \cup {None}]
    OBVIOUS
  <2> QED
    BY <2>1, <2>2, <2>3 DEF TypeOK
<1>2. HeldAt
  BY DEF HeldAt
<1>3. EntriesAt /\ UsersAt
  BY DEF EntriesAt, UsersAt
<1>4. SoundAt
  BY DEF SoundAt, Initialised, Buckets, None
<1>5. Survives
  BY DEF Survives
<1> QED
  BY <1>1, <1>2, <1>3, <1>4, <1>5 DEF IInv

(* and every step keeps it. *)
LEMMA NextIInv == IInv /\ [Next]_vars => IInv'
<1> SUFFICES ASSUME IInv, [Next]_vars PROVE IInv'
  OBVIOUS
<1>1. CASE UNCHANGED vars
  <2>1. UNCHANGED <<mpc, held, next, linked, lock, good, leaked, upc, at, early, touched, corrupt, oops>>
    BY <1>1 DEF vars, table, users
  <2> QED
    BY <2>1 DEF IInv, TypeOK, HeldAt, EntriesAt, UsersAt, SoundAt, Survives, Initialised
<1>2. CASE ~ oops /\ Module
  BY <1>2, ModuleStep
<1>3. CASE ~ oops /\ \E u \in Users : User(u)
  BY <1>3, UserStep
<1>4. CASE ~ oops /\ Damage
  BY <1>4, DamageStep
<1>5. CASE Reboot
  <2>1. Init'
    BY <1>5 DEF Reboot, Init
  <2> QED
    BY InitIInv, <2>1, PTL
<1> QED
  BY <1>1, <1>2, <1>3, <1>4, <1>5 DEF Next

(* The invariant holds in every reachable state. *)
THEOREM Invariance == Spec => []IInv
  BY InitIInv, NextIInv, PTL DEF Spec

(* Every state is well typed. *)
THEOREM TypeCorrect == Spec => []TypeOK
<1>1. IInv => TypeOK
  BY DEF IInv
<1> QED
  BY <1>1, Invariance, PTL

(* A load that fails leaves nothing at all behind it, and an unload no      *)
(* registration, no netpoll and no entry, even after an ioctl that ran into *)
(* kv_hash_init (kvlkm.c:76-121, 148-164).                                  *)
THEOREM NothingLeftBehind == Spec => Unwound
<1> DEFINE A == ~ oops /\ mpc # "unloaded" /\ mpc' = "unloaded" =>
                  IF mpc = "send" THEN leaked' \subseteq leaked \cup {"locks"}
                                  ELSE leaked' = leaked
<1>1. IInv /\ [Next]_vars => [A]_vars
  <2> SUFFICES ASSUME IInv, Next PROVE A
    OBVIOUS
  <2>1. CASE ~ oops /\ Module
    BY <2>1, ModuleStep
  <2>2. CASE ~ oops /\ \E u \in Users : User(u)
    BY <2>2, UserStep
  <2>3. CASE ~ oops /\ Damage
    BY <2>3, DamageStep
  <2>4. CASE Reboot
    BY <2>4 DEF Reboot
  <2> QED
    BY <2>1, <2>2, <2>3, <2>4 DEF Next
<1> QED
  BY <1>1, Invariance, PTL DEF Spec, Unwound

(* Who opens the device of a loaded module finds a table with every bucket  *)
(* initialised, and keeps it until the file is closed; if no ioctl came to  *)
(* a bucket before kv_hash_init did, the chains are lists and the locks     *)
(* exclude (kvlkm.c:47-50, 113-125).                                        *)
THEOREM LoadedIsReady == Spec => []ReadyForUsers
<1>1. IInv => ReadyForUsers
  BY DEF IInv, HeldAt, UsersAt, SoundAt, ReadyForUsers, Initialised, In
<1> QED
  BY <1>1, Invariance, PTL

(* The kernel crashes, or has its memory overwritten, in three ways only:   *)
(* by an ioctl that came to a bucket before kv_hash_init did, then or at    *)
(* any time later; by a file that outlived a failed load; by an unload      *)
(* after netpoll_setup has failed (kvlkm.c:100, 113, 133, 160;              *)
(* kv_hash.c:50-54, 117-143).                                               *)
THEOREM ThreeWaysToCrash == Spec => []Survives
<1>1. IInv => Survives
  BY DEF IInv
<1> QED
  BY <1>1, Invariance, PTL

=============================================================================
