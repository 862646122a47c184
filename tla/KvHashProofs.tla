---------------------------- MODULE KvHashProofs ----------------------------
(***************************************************************************)
(* Machine-checked proofs about KvHash, for every number of threads, keys, *)
(* strings and buckets.                                                    *)
(*                                                                         *)
(* None of the properties is inductive alone.  A scan that stays true      *)
(* (FoundStillLinked) needs mutual exclusion, mutual exclusion needs the   *)
(* lock to name its holder (LockHeld), and the memory properties need to   *)
(* know when a thread owns a string and which chain it works on            *)
(* (ControlOK).  IInv is their conjunction.                                *)
(***************************************************************************)
EXTENDS KvHash, FiniteSetTheorems, TLAPS

(* What the program counter of t says about its locals. *)
Control(t) ==
  /\ pc[t] # "idle" => req[t] \in Requests(Caps)
  /\ pc[t] \in {"scan", "act"} => req[t].fn \in KeyedFns
  /\ pc[t] \in {"walk", "unlock"} => req[t].fn \in WalkFns
  /\ pc[t] \in {"lock", "scan", "act", "leave"} /\ req[t].fn \in KeyedFns
       => bkt[t] = kv_bucket(req[t].key)
  /\ pc[t] \in {"lock", "walk", "unlock", "leave"} /\ req[t].fn = "snapshot"
       => req[t].max # 0
  /\ newstr[t] # NULL <=> pc[t] \in {"lock", "scan", "act"} /\ req[t].fn = "add"

ControlOK == \A t \in Threads : Control(t)

(* A bucket lock names the one thread that is in a critical section on it. *)
LockHeld ==
  \A t \in Threads, b \in Buckets : lock[b] = t <=> pc[t] \in InCS /\ bkt[t] = b

FiniteChains == \A b \in Buckets : IsFiniteSet(buckets[b])

IInv ==
  /\ TypeOK
  /\ ControlOK
  /\ LockHeld
  /\ FiniteChains
  /\ StringsOwned
  /\ OneEntryPerKey
  /\ FoundStillLinked

-----------------------------------------------------------------------------
(* Facts about single definitions. *)

(* A request has the arguments of its function. *)
LEMMA RequestShape ==
  ASSUME NEW r \in Requests(Caps)
  PROVE  /\ r.fn \in KeyedFns \cup WalkFns
         /\ r.fn \in KeyedFns => r.key \in Keys
         /\ r.fn = "add" => r.value \in Values
         /\ r.fn = "snapshot" => r.max \in Caps /\ r.max \in Nat
BY CapsAssumption DEF Requests, KeyedFns, WalkFns

(* Every key has a bucket, and bucket 0 exists. *)
LEMMA BucketTypes ==
  /\ \A k \in Keys : kv_bucket(k) \in Buckets
  /\ 0 \in Buckets
BY HashMinAssumption, NumBucketsAssumption DEF kv_bucket, Buckets

(* A chain has a size, and its entries make well-formed messages. *)
LEMMA ChainTypes ==
  ASSUME IInv, NEW b \in Buckets
  PROVE  /\ Cardinality(buckets[b]) \in Nat
         /\ \A e \in buckets[b] : Copy(e) \in Messages
<1>1. Cardinality(buckets[b]) \in Nat
  BY FS_CardinalityType DEF IInv, FiniteChains
<1>2. ASSUME NEW e \in buckets[b] PROVE Copy(e) \in Messages
  <2>1. e \in Entries /\ str[e.value] \in Values
    BY DEF IInv, TypeOK, StringsOwned, NoDangling, Entries
  <2> QED
    BY <2>1, StrscpyAssumption DEF Copy, Messages, Entries
<1> QED
  BY <1>1, <1>2

-----------------------------------------------------------------------------
(* The inductive invariant. *)

(* The table that kv_hash_init leaves satisfies the invariant. *)
LEMMA InitInv == Init => IInv
<1> SUFFICES ASSUME Init PROVE IInv
  OBVIOUS
<1>1. TypeOK
  BY BucketTypes DEF Init, TypeOK, Labels
<1>2. ControlOK
  BY DEF Init, ControlOK, Control
<1>3. LockHeld
  BY NULLAssumption DEF Init, LockHeld, InCS
<1>4. FiniteChains
  BY FS_EmptySet DEF Init, FiniteChains
<1>5. StringsOwned
  BY DEF Init, StringsOwned, NoDangling, NoSharing, NoLeak
<1>6. OneEntryPerKey
  BY DEF Init, OneEntryPerKey
<1>7. FoundStillLinked
  BY DEF Init, FoundStillLinked
<1> QED
  BY <1>1, <1>2, <1>3, <1>4, <1>5, <1>6, <1>7 DEF IInv

(* The thread that is in a critical section on a chain is alone there. *)
LEMMA MutualExclusion ==
  ASSUME LockHeld, NEW t \in Threads, NEW u \in Threads,
         pc[t] \in InCS, pc[u] \in InCS, bkt[t] = bkt[u], bkt[t] \in Buckets
  PROVE  t = u
BY DEF LockHeld

(* Every step keeps the types.  The walks need finite chains (a size is a   *)
(* number) and live strings (a message has a string).                       *)
LEMMA TypeStep == IInv /\ [Next]_vars => TypeOK'
<1> SUFFICES ASSUME IInv, [Next]_vars PROVE TypeOK'
  OBVIOUS
<1> USE RequestShape, BucketTypes DEF IInv, TypeOK, ControlOK, Control, Labels, InCS
<1>1. CASE UNCHANGED vars
  BY <1>1 DEF vars
<1>2. ASSUME NEW t \in Threads, NEW r \in Requests(Caps), Call(t, r) PROVE TypeOK'
  BY <1>2 DEF Call, Goto, shared
<1>3. ASSUME NEW t \in Threads, Return(t) PROVE TypeOK'
  BY <1>3 DEF Return, Goto, Result, shared
<1>4. ASSUME NEW t \in Threads, Lock(t) PROVE TypeOK'
  BY <1>4 DEF Lock, Goto
<1>5. ASSUME NEW t \in Threads, AddDup(t) PROVE TypeOK'
  BY <1>5 DEF AddDup, Goto, KeyedFns
<1>6. ASSUME NEW t \in Threads, AddDupNoMem(t) PROVE TypeOK'
  BY <1>6 DEF AddDupNoMem, Goto, Result, shared, Codes
<1>7. ASSUME NEW t \in Threads, KeyedEnter(t) PROVE TypeOK'
  BY <1>7 DEF KeyedEnter, Goto, shared, KeyedFns
<1>8. ASSUME NEW t \in Threads, WalkEnter(t) PROVE TypeOK'
  BY <1>8 DEF WalkEnter, Goto, shared
<1>9. ASSUME NEW t \in Threads, SnapshotInvalid(t) PROVE TypeOK'
  BY <1>9 DEF SnapshotInvalid, Goto, Result, shared, Codes
<1>10. ASSUME NEW t \in Threads, Scan(t) PROVE TypeOK'
  BY <1>10 DEF Scan, Goto, shared
<1>11. ASSUME NEW t \in Threads, AddUpdate(t) PROVE TypeOK'
  BY <1>11 DEF AddUpdate, Goto, Result, Acting, Entries, KeyedFns, Codes
<1>12. ASSUME NEW t \in Threads, AddNew(t) PROVE TypeOK'
  BY <1>12 DEF AddNew, Goto, Result, Acting, Entries, KeyedFns, Codes
<1>13. ASSUME NEW t \in Threads, AddNewNoMem(t) PROVE TypeOK'
  BY <1>13 DEF AddNewNoMem, Goto, Result, Acting, Codes
<1>14. ASSUME NEW t \in Threads, RemoveFound(t) PROVE TypeOK'
  BY <1>14 DEF RemoveFound, Goto, Result, Acting, Codes
<1>15. ASSUME NEW t \in Threads, LookupFound(t) PROVE TypeOK'
  BY <1>15 DEF LookupFound, Goto, Result, Acting, shared, Codes, Entries
<1>16. ASSUME NEW t \in Threads, NotFound(t) PROVE TypeOK'
  BY <1>16 DEF NotFound, Goto, Result, shared, Codes
<1>17. ASSUME NEW t \in Threads, CountBucket(t) PROVE TypeOK'
  BY <1>17, ChainTypes DEF CountBucket, Goto, shared
<1>18. ASSUME NEW t \in Threads, SnapshotBucket(t) PROVE TypeOK'
  BY <1>18, ChainTypes DEF SnapshotBucket, Goto, shared
<1>19. ASSUME NEW t \in Threads, SnapshotFull(t) PROVE TypeOK'
  <2>1. PICK S \in SUBSET buckets[bkt[t]] :
          out' = [out EXCEPT ![t] = @ \cup {Copy(e) : e \in S}]
    BY <1>19 DEF SnapshotFull
  <2>2. {Copy(e) : e \in S} \subseteq Messages
    BY ChainTypes
  <2>3. out' \in [Threads -> SUBSET Messages]
    BY <2>1, <2>2
  <2> QED
    BY <1>19, <2>3 DEF SnapshotFull, Goto, shared
<1>20. ASSUME NEW t \in Threads, UnlockReturn(t) PROVE TypeOK'
  BY <1>20 DEF UnlockReturn, Goto, Codes
<1>21. ASSUME NEW t \in Threads, UnlockNext(t) PROVE TypeOK'
  <2>1. bkt[t] + 1 < NumBuckets => bkt[t] + 1 \in Buckets
    BY NumBucketsAssumption DEF Buckets
  <2>2. bkt' \in [Threads -> Buckets]
    BY <1>21, <2>1 DEF UnlockNext
  <2> QED
    BY <1>21, <2>2 DEF UnlockNext, Goto, Result, Codes
<1> QED
  BY <1>1, <1>2, <1>3, <1>4, <1>5, <1>6, <1>7, <1>8, <1>9, <1>10, <1>11,
     <1>12, <1>13, <1>14, <1>15, <1>16, <1>17, <1>18, <1>19, <1>20, <1>21 DEF Next, Step

(* Every step keeps the program counters and the locals in agreement. *)
LEMMA ControlStep == IInv /\ [Next]_vars => ControlOK'
<1> SUFFICES ASSUME IInv, [Next]_vars PROVE ControlOK'
  OBVIOUS
<1> USE RequestShape DEF IInv, TypeOK, ControlOK, Control, KeyedFns, WalkFns
<1>1. CASE UNCHANGED vars
  BY <1>1 DEF vars
<1>2. ASSUME NEW t \in Threads, NEW r \in Requests(Caps), Call(t, r) PROVE ControlOK'
  BY <1>2 DEF Call, Goto, shared
<1>3. ASSUME NEW t \in Threads, Return(t) PROVE ControlOK'
  BY <1>3 DEF Return, Goto, Result, shared
<1>4. ASSUME NEW t \in Threads, Lock(t) PROVE ControlOK'
  BY <1>4 DEF Lock, Goto
<1>5. ASSUME NEW t \in Threads, AddDup(t) PROVE ControlOK'
  BY <1>5, PtrsAssumption DEF AddDup, Goto
<1>6. ASSUME NEW t \in Threads, AddDupNoMem(t) PROVE ControlOK'
  BY <1>6 DEF AddDupNoMem, Goto, Result, shared
<1>7. ASSUME NEW t \in Threads, KeyedEnter(t) PROVE ControlOK'
  BY <1>7 DEF KeyedEnter, Goto, shared
<1>8. ASSUME NEW t \in Threads, WalkEnter(t) PROVE ControlOK'
  BY <1>8 DEF WalkEnter, Goto, shared
<1>9. ASSUME NEW t \in Threads, SnapshotInvalid(t) PROVE ControlOK'
  BY <1>9 DEF SnapshotInvalid, Goto, Result, shared
<1>10. ASSUME NEW t \in Threads, Scan(t) PROVE ControlOK'
  BY <1>10 DEF Scan, Goto, shared
<1>11. ASSUME NEW t \in Threads, AddUpdate(t) PROVE ControlOK'
  BY <1>11 DEF AddUpdate, Goto, Result, Acting
<1>12. ASSUME NEW t \in Threads, AddNew(t) PROVE ControlOK'
  BY <1>12 DEF AddNew, Goto, Result, Acting
<1>13. ASSUME NEW t \in Threads, AddNewNoMem(t) PROVE ControlOK'
  BY <1>13 DEF AddNewNoMem, Goto, Result, Acting
<1>14. ASSUME NEW t \in Threads, RemoveFound(t) PROVE ControlOK'
  BY <1>14 DEF RemoveFound, Goto, Result, Acting
<1>15. ASSUME NEW t \in Threads, LookupFound(t) PROVE ControlOK'
  BY <1>15 DEF LookupFound, Goto, Result, Acting, shared
<1>16. ASSUME NEW t \in Threads, NotFound(t) PROVE ControlOK'
  BY <1>16 DEF NotFound, Goto, Result, shared
<1>17. ASSUME NEW t \in Threads, CountBucket(t) PROVE ControlOK'
  BY <1>17 DEF CountBucket, Goto, shared
<1>18. ASSUME NEW t \in Threads, SnapshotBucket(t) PROVE ControlOK'
  BY <1>18 DEF SnapshotBucket, Goto, shared
<1>19. ASSUME NEW t \in Threads, SnapshotFull(t) PROVE ControlOK'
  BY <1>19 DEF SnapshotFull, Goto, shared
<1>20. ASSUME NEW t \in Threads, UnlockReturn(t) PROVE ControlOK'
  BY <1>20 DEF UnlockReturn, Goto
<1>21. ASSUME NEW t \in Threads, UnlockNext(t) PROVE ControlOK'
  BY <1>21 DEF UnlockNext, Goto, Result
<1> QED
  BY <1>1, <1>2, <1>3, <1>4, <1>5, <1>6, <1>7, <1>8, <1>9, <1>10, <1>11,
     <1>12, <1>13, <1>14, <1>15, <1>16, <1>17, <1>18, <1>19, <1>20, <1>21 DEF Next, Step

(* Only a free lock is taken, and only its holder releases it. *)
LEMMA LockStep == IInv /\ [Next]_vars => LockHeld'
<1> SUFFICES ASSUME IInv, [Next]_vars PROVE LockHeld'
  OBVIOUS
<1> USE NULLAssumption DEF IInv, TypeOK, LockHeld, ControlOK, Control, InCS
<1>1. CASE UNCHANGED vars
  BY <1>1 DEF vars
<1>2. ASSUME NEW t \in Threads, NEW r \in Requests(Caps), Call(t, r) PROVE LockHeld'
  BY <1>2 DEF Call, Goto, shared
<1>3. ASSUME NEW t \in Threads, Return(t) PROVE LockHeld'
  BY <1>3 DEF Return, Goto, Result, shared
<1>4. ASSUME NEW t \in Threads, Lock(t) PROVE LockHeld'
  BY <1>4 DEF Lock, Goto, WalkFns
<1>5. ASSUME NEW t \in Threads, AddDup(t) PROVE LockHeld'
  BY <1>5 DEF AddDup, Goto
<1>6. ASSUME NEW t \in Threads, AddDupNoMem(t) PROVE LockHeld'
  BY <1>6 DEF AddDupNoMem, Goto, Result, shared
<1>7. ASSUME NEW t \in Threads, KeyedEnter(t) PROVE LockHeld'
  BY <1>7 DEF KeyedEnter, Goto, shared
<1>8. ASSUME NEW t \in Threads, WalkEnter(t) PROVE LockHeld'
  BY <1>8 DEF WalkEnter, Goto, shared
<1>9. ASSUME NEW t \in Threads, SnapshotInvalid(t) PROVE LockHeld'
  BY <1>9 DEF SnapshotInvalid, Goto, Result, shared
<1>10. ASSUME NEW t \in Threads, Scan(t) PROVE LockHeld'
  BY <1>10 DEF Scan, Goto, shared
<1>11. ASSUME NEW t \in Threads, AddUpdate(t) PROVE LockHeld'
  BY <1>11 DEF AddUpdate, Goto, Result, Acting
<1>12. ASSUME NEW t \in Threads, AddNew(t) PROVE LockHeld'
  BY <1>12 DEF AddNew, Goto, Result, Acting
<1>13. ASSUME NEW t \in Threads, AddNewNoMem(t) PROVE LockHeld'
  BY <1>13 DEF AddNewNoMem, Goto, Result, Acting
<1>14. ASSUME NEW t \in Threads, RemoveFound(t) PROVE LockHeld'
  BY <1>14 DEF RemoveFound, Goto, Result, Acting
<1>15. ASSUME NEW t \in Threads, LookupFound(t) PROVE LockHeld'
  BY <1>15 DEF LookupFound, Goto, Result, Acting, shared
<1>16. ASSUME NEW t \in Threads, NotFound(t) PROVE LockHeld'
  BY <1>16 DEF NotFound, Goto, Result, shared
<1>17. ASSUME NEW t \in Threads, CountBucket(t) PROVE LockHeld'
  BY <1>17 DEF CountBucket, Goto, shared
<1>18. ASSUME NEW t \in Threads, SnapshotBucket(t) PROVE LockHeld'
  BY <1>18 DEF SnapshotBucket, Goto, shared
<1>19. ASSUME NEW t \in Threads, SnapshotFull(t) PROVE LockHeld'
  BY <1>19 DEF SnapshotFull, Goto, shared
<1>20. ASSUME NEW t \in Threads, UnlockReturn(t) PROVE LockHeld'
  BY <1>20 DEF UnlockReturn, Goto
<1>21. ASSUME NEW t \in Threads, UnlockNext(t) PROVE LockHeld'
  BY <1>21 DEF UnlockNext, Goto, Result, Buckets
<1> QED
  BY <1>1, <1>2, <1>3, <1>4, <1>5, <1>6, <1>7, <1>8, <1>9, <1>10, <1>11,
     <1>12, <1>13, <1>14, <1>15, <1>16, <1>17, <1>18, <1>19, <1>20, <1>21 DEF Next, Step

-----------------------------------------------------------------------------
(* The table. *)

(* Five actions allocate, link, unlink or free. *)
LEMMA TableWriters ==
  ASSUME [Next]_vars
  PROVE  \/ UNCHANGED <<buckets, str, newstr>>
         \/ \E t \in Threads : \/ AddDup(t) \/ AddUpdate(t) \/ AddNew(t)
                               \/ AddNewNoMem(t) \/ RemoveFound(t)
<1>1. CASE UNCHANGED vars
  BY <1>1 DEF vars
<1>2. ASSUME NEW t \in Threads, NEW r \in Requests(Caps), Call(t, r)
      PROVE  UNCHANGED <<buckets, str, newstr>>
  BY <1>2 DEF Call, shared
<1>3. ASSUME NEW t \in Threads, Return(t) \/ Lock(t)
      PROVE  UNCHANGED <<buckets, str, newstr>>
  BY <1>3 DEF Return, Lock, shared
<1>4. ASSUME NEW t \in Threads, Step(t)
      PROVE  \/ UNCHANGED <<buckets, str, newstr>>
             \/ AddDup(t) \/ AddUpdate(t) \/ AddNew(t) \/ AddNewNoMem(t) \/ RemoveFound(t)
  BY <1>4 DEF Step, AddDupNoMem, KeyedEnter, WalkEnter, SnapshotInvalid, Scan,
              LookupFound, NotFound, CountBucket, SnapshotBucket, SnapshotFull,
              UnlockReturn, UnlockNext, shared
<1> QED
  BY <1>1, <1>2, <1>3, <1>4 DEF Next

(* What an acting thread knows about its locals. *)
LEMMA ActingTypes ==
  ASSUME IInv, NEW t \in Threads, pc[t] = "act"
  PROVE  /\ bkt[t] \in Buckets /\ buckets[bkt[t]] \subseteq Entries
         /\ req[t].key \in Keys /\ bkt[t] = kv_bucket(req[t].key)
         /\ ent[t] # NULL => /\ ent[t] \in buckets[bkt[t]] /\ ent[t] \in Entries
                             /\ ent[t].key = req[t].key
         /\ ent[t] = NULL => \A e \in buckets[bkt[t]] : e.key # req[t].key
         /\ req[t].fn = "add" => newstr[t] \in Ptrs /\ newstr[t] # NULL
BY RequestShape DEF IInv, TypeOK, ControlOK, Control, FoundStillLinked, KeyedFns

(* A step adds at most one entry to a chain. *)
LEMMA ChainsStep == IInv /\ [Next]_vars => FiniteChains'
<1> SUFFICES ASSUME IInv, [Next]_vars, NEW b \in Buckets
             PROVE  IsFiniteSet(buckets'[b])
  BY DEF FiniteChains
<1> USE DEF IInv, TypeOK
<1>0. IsFiniteSet(buckets[b])
  BY DEF FiniteChains
<1>1. CASE UNCHANGED buckets
  BY <1>0, <1>1
<1>2. ASSUME NEW t \in Threads, AddUpdate(t) PROVE IsFiniteSet(buckets'[b])
  <2> DEFINE e == [key |-> ent[t].key, value |-> newstr[t]]
  <2>1. IsFiniteSet((buckets[b] \ {ent[t]}) \cup {e})
    BY <1>0, FS_RemoveElement, FS_AddElement
  <2> QED
    BY <1>0, <1>2, <2>1 DEF AddUpdate
<1>3. ASSUME NEW t \in Threads, AddNew(t) PROVE IsFiniteSet(buckets'[b])
  <2> DEFINE e == [key |-> req[t].key, value |-> newstr[t]]
  <2>1. IsFiniteSet(buckets[b] \cup {e})
    BY <1>0, FS_AddElement
  <2> QED
    BY <1>0, <1>3, <2>1 DEF AddNew
<1>4. ASSUME NEW t \in Threads, RemoveFound(t) PROVE IsFiniteSet(buckets'[b])
  <2>1. IsFiniteSet(buckets[b] \ {ent[t]})
    BY <1>0, FS_RemoveElement
  <2> QED
    BY <1>0, <1>4, <2>1 DEF RemoveFound
<1> QED
  BY <1>1, <1>2, <1>3, <1>4, TableWriters DEF AddDup, AddNewNoMem

(* The scan that precedes a link has shown the key absent, and it still is. *)
LEMMA KeysStep == IInv /\ [Next]_vars => OneEntryPerKey'
<1> SUFFICES ASSUME IInv, [Next]_vars PROVE OneEntryPerKey'
  OBVIOUS
<1> USE DEF IInv, TypeOK, OneEntryPerKey
<1>1. CASE UNCHANGED buckets
  BY <1>1
<1>2. ASSUME NEW t \in Threads, AddUpdate(t) PROVE OneEntryPerKey'
  BY <1>2, ActingTypes DEF AddUpdate, Acting
<1>3. ASSUME NEW t \in Threads, AddNew(t) PROVE OneEntryPerKey'
  BY <1>3, ActingTypes DEF AddNew, Acting
<1>4. ASSUME NEW t \in Threads, RemoveFound(t) PROVE OneEntryPerKey'
  BY <1>4, ActingTypes DEF RemoveFound, Acting
<1> QED
  BY <1>1, <1>2, <1>3, <1>4, TableWriters DEF AddDup, AddNewNoMem

(* Every allocated string keeps exactly one owner: a new one is owned by    *)
(* the thread, a link hands it to the chain, and what is freed had no other *)
(* owner.                                                                   *)
LEMMA StringsStep == IInv /\ [Next]_vars => StringsOwned'
<1> SUFFICES ASSUME IInv, [Next]_vars PROVE NoDangling' /\ NoSharing' /\ NoLeak'
  BY DEF StringsOwned
<1> USE DEF IInv, TypeOK, StringsOwned
<1>1. CASE UNCHANGED <<buckets, str, newstr>>
  BY <1>1 DEF NoDangling, NoSharing, NoLeak
<1>2. ASSUME NEW t \in Threads, AddDup(t) PROVE NoDangling' /\ NoSharing' /\ NoLeak'
  <2>1. PICK p \in Ptrs : /\ str[p] = NULL
                          /\ str' = [str EXCEPT ![p] = req[t].value]
                          /\ newstr' = [newstr EXCEPT ![t] = p]
    BY <1>2 DEF AddDup
  <2>2. UNCHANGED buckets /\ req[t].value # NULL /\ newstr[t] = NULL /\ p # NULL
    BY <1>2, RequestShape, NULLAssumption, PtrsAssumption
    DEF AddDup, ControlOK, Control
  <2>3. \A b \in Buckets : \A e \in buckets[b] : e.value \in Ptrs /\ e.value # p
    BY <2>1 DEF NoDangling, Entries
  <2>4. NoDangling'
    BY <2>1, <2>2, <2>3 DEF NoDangling
  <2>5. NoSharing'
    BY <2>1, <2>2, <2>3 DEF NoSharing, NoDangling
  <2>6. NoLeak'
    BY <2>1, <2>2, PtrsAssumption DEF NoLeak
  <2> QED
    BY <2>4, <2>5, <2>6
<1>3. ASSUME NEW t \in Threads, AddUpdate(t) PROVE NoDangling' /\ NoSharing' /\ NoLeak'
  <2> DEFINE b == bkt[t]  old == ent[t]  p == newstr[t]
             new == [key |-> old.key, value |-> p]
  <2>1. /\ b \in Buckets /\ old \in buckets[b] /\ old \in Entries
        /\ p \in Ptrs /\ p # NULL
    BY <1>3, ActingTypes DEF AddUpdate, Acting
  <2>2. /\ str' = [str EXCEPT ![old.value] = NULL]
        /\ newstr' = [newstr EXCEPT ![t] = NULL]
        /\ buckets' = [buckets EXCEPT ![b] = (@ \ {old}) \cup {new}]
    BY <1>3 DEF AddUpdate
  <2>3. old.value \in Ptrs /\ new.value = p /\ old.value # p
    BY <2>1 DEF NoSharing, Entries
  <2> HIDE DEF new
  <2>4. \A c \in Buckets : \A e \in buckets'[c] :
          /\ e.value # old.value
          /\ \/ e = new /\ c = b
             \/ e \in buckets[c] /\ e.value # p /\ e.value \in Ptrs
    <3> SUFFICES ASSUME NEW c \in Buckets, NEW e \in buckets'[c]
                 PROVE  /\ e.value # old.value
                        /\ \/ e = new /\ c = b
                           \/ e \in buckets[c] /\ e.value # p /\ e.value \in Ptrs
      OBVIOUS
    <3>1. \/ e = new /\ c = b
          \/ e \in buckets[c] /\ ~ (c = b /\ e = old)
      BY <2>1, <2>2
    <3>2. CASE e = new /\ c = b
      BY <3>2, <2>3
    <3>3. CASE e \in buckets[c] /\ ~ (c = b /\ e = old)
      BY <3>3, <2>1 DEF NoSharing, Entries
    <3> QED
      BY <3>1, <3>2, <3>3
  <2>5. NoDangling'
    <3>1. \A c \in Buckets : \A e \in buckets'[c] : str'[e.value] # NULL
      BY <2>1, <2>2, <2>3, <2>4 DEF NoDangling
    <3>2. \A u \in Threads : newstr'[u] # NULL => str'[newstr'[u]] # NULL
      BY <2>1, <2>2, <2>3 DEF NoDangling, NoSharing
    <3> QED
      BY <3>1, <3>2 DEF NoDangling
  <2>6. NoSharing'
    <3>1. \A c, d \in Buckets : \A e1 \in buckets'[c], e2 \in buckets'[d] :
            e1.value = e2.value => c = d /\ e1 = e2
      BY <2>3, <2>4 DEF NoSharing
    <3>2. \A u, w \in Threads : newstr'[u] # NULL /\ newstr'[u] = newstr'[w] => u = w
      BY <2>2 DEF NoSharing
    <3>3. \A u \in Threads, c \in Buckets : \A e \in buckets'[c] : newstr'[u] # e.value
      BY <2>1, <2>2, <2>3, <2>4, PtrsAssumption DEF NoSharing
    <3> QED
      BY <3>1, <3>2, <3>3 DEF NoSharing
  <2>7. NoLeak'
    <3> SUFFICES ASSUME NEW q \in Ptrs, str'[q] # NULL
                 PROVE  \/ \E c \in Buckets : \E e \in buckets'[c] : e.value = q
                        \/ \E u \in Threads : newstr'[u] = q
      BY DEF NoLeak
    <3>1. str[q] # NULL /\ q # old.value
      BY <2>2, <2>3
    <3>2. CASE q = p
      BY <3>2, <2>1, <2>2, <2>3
    <3>3. CASE \E c \in Buckets : \E e \in buckets[c] : e.value = q
      BY <3>1, <3>3, <2>2
    <3>4. CASE q # p /\ \E u \in Threads : newstr[u] = q
      BY <3>4, <2>2
    <3> QED
      BY <3>1, <3>2, <3>3, <3>4 DEF NoLeak
  <2> QED
    BY <2>5, <2>6, <2>7
<1>4. ASSUME NEW t \in Threads, AddNew(t) PROVE NoDangling' /\ NoSharing' /\ NoLeak'
  <2> DEFINE b == bkt[t]  p == newstr[t]  new == [key |-> req[t].key, value |-> p]
  <2>1. b \in Buckets /\ p \in Ptrs /\ p # NULL
    BY <1>4, ActingTypes DEF AddNew, Acting
  <2>2. /\ UNCHANGED str
        /\ newstr' = [newstr EXCEPT ![t] = NULL]
        /\ buckets' = [buckets EXCEPT ![b] = @ \cup {new}]
    BY <1>4 DEF AddNew
  <2>3. new.value = p /\ new \in buckets'[b]
    BY <2>1, <2>2
  <2> HIDE DEF new
  <2>4. \A c \in Buckets : \A e \in buckets'[c] :
          \/ e = new /\ c = b
          \/ e \in buckets[c] /\ e.value # p /\ e.value \in Ptrs
    <3>1. \A c \in Buckets : \A e \in buckets'[c] :
            (e = new /\ c = b) \/ e \in buckets[c]
      BY <2>1, <2>2
    <3>2. \A c \in Buckets : \A e \in buckets[c] : e.value # p /\ e.value \in Ptrs
      BY DEF NoSharing, Entries
    <3> QED
      BY <3>1, <3>2
  <2>5. NoDangling'
    BY <2>1, <2>2, <2>3, <2>4 DEF NoDangling
  <2>6. NoSharing'
    <3>1. \A c, d \in Buckets : \A e1 \in buckets'[c], e2 \in buckets'[d] :
            e1.value = e2.value => c = d /\ e1 = e2
      BY <2>3, <2>4 DEF NoSharing
    <3>2. \A u, w \in Threads : newstr'[u] # NULL /\ newstr'[u] = newstr'[w] => u = w
      BY <2>2 DEF NoSharing
    <3>3. \A u \in Threads, c \in Buckets : \A e \in buckets'[c] : newstr'[u] # e.value
      BY <2>1, <2>2, <2>3, <2>4, PtrsAssumption DEF NoSharing
    <3> QED
      BY <3>1, <3>2, <3>3 DEF NoSharing
  <2>7. NoLeak'
    BY <2>1, <2>2, <2>3 DEF NoLeak
  <2> QED
    BY <2>5, <2>6, <2>7
<1>5. ASSUME NEW t \in Threads, AddNewNoMem(t) PROVE NoDangling' /\ NoSharing' /\ NoLeak'
  <2>1. newstr[t] \in Ptrs /\ newstr[t] # NULL
    BY <1>5, ActingTypes DEF AddNewNoMem, Acting
  <2>2. /\ UNCHANGED buckets
        /\ str' = [str EXCEPT ![newstr[t]] = NULL]
        /\ newstr' = [newstr EXCEPT ![t] = NULL]
    BY <1>5 DEF AddNewNoMem
  <2>3. \A b \in Buckets : \A e \in buckets[b] : e.value \in Ptrs /\ e.value # newstr[t]
    BY DEF NoSharing, Entries
  <2>4. NoDangling'
    BY <2>1, <2>2, <2>3 DEF NoDangling, NoSharing
  <2>5. NoSharing'
    BY <2>2, <2>3, PtrsAssumption DEF NoSharing
  <2>6. NoLeak'
    BY <2>1, <2>2 DEF NoLeak
  <2> QED
    BY <2>4, <2>5, <2>6
<1>6. ASSUME NEW t \in Threads, RemoveFound(t) PROVE NoDangling' /\ NoSharing' /\ NoLeak'
  <2> DEFINE b == bkt[t]  old == ent[t]
  <2>1. b \in Buckets /\ old \in buckets[b] /\ old.value \in Ptrs
    BY <1>6, ActingTypes DEF RemoveFound, Acting, Entries
  <2>2. /\ UNCHANGED newstr
        /\ str' = [str EXCEPT ![old.value] = NULL]
        /\ buckets' = [buckets EXCEPT ![b] = @ \ {old}]
    BY <1>6 DEF RemoveFound
  <2>3. \A c \in Buckets : \A e \in buckets'[c] :
          e \in buckets[c] /\ e.value # old.value /\ e.value \in Ptrs
    BY <2>1, <2>2 DEF NoSharing, Entries
  <2>4. NoDangling'
    BY <2>1, <2>2, <2>3 DEF NoDangling, NoSharing
  <2>5. NoSharing'
    BY <2>2, <2>3 DEF NoSharing
  <2>6. NoLeak'
    <3> SUFFICES ASSUME NEW q \in Ptrs, str'[q] # NULL
                 PROVE  \/ \E c \in Buckets : \E e \in buckets'[c] : e.value = q
                        \/ \E u \in Threads : newstr'[u] = q
      BY DEF NoLeak
    <3>1. str[q] # NULL /\ q # old.value
      BY <2>1, <2>2
    <3>2. CASE \E c \in Buckets : \E e \in buckets[c] : e.value = q
      BY <3>1, <3>2, <2>2
    <3>3. CASE \E u \in Threads : newstr[u] = q
      BY <3>3, <2>2
    <3> QED
      BY <3>1, <3>2, <3>3 DEF NoLeak
  <2> QED
    BY <2>4, <2>5, <2>6
<1> QED
  BY <1>1, <1>2, <1>3, <1>4, <1>5, <1>6, TableWriters

(* Only the holder of the lock changes a chain, so what a scan found lasts  *)
(* until the thread acts on it.                                             *)
LEMMA FoundStep == IInv /\ [Next]_vars => FoundStillLinked'
<1> SUFFICES ASSUME IInv, [Next]_vars PROVE FoundStillLinked'
  OBVIOUS
<1> USE DEF IInv, TypeOK, FoundStillLinked, LockHeld, ControlOK, Control
<1>1. CASE UNCHANGED vars
  BY <1>1 DEF vars
<1>2. ASSUME NEW t \in Threads, NEW r \in Requests(Caps), Call(t, r) PROVE FoundStillLinked'
  BY <1>2 DEF Call, Goto, shared
<1>3. ASSUME NEW t \in Threads, Return(t) PROVE FoundStillLinked'
  BY <1>3 DEF Return, Goto, Result, shared
<1>4. ASSUME NEW t \in Threads, Lock(t) PROVE FoundStillLinked'
  BY <1>4 DEF Lock, Goto
<1>5. ASSUME NEW t \in Threads, AddDup(t) PROVE FoundStillLinked'
  BY <1>5 DEF AddDup, Goto
<1>6. ASSUME NEW t \in Threads, AddDupNoMem(t) PROVE FoundStillLinked'
  BY <1>6 DEF AddDupNoMem, Goto, Result, shared
<1>7. ASSUME NEW t \in Threads, KeyedEnter(t) PROVE FoundStillLinked'
  BY <1>7 DEF KeyedEnter, Goto, shared
<1>8. ASSUME NEW t \in Threads, WalkEnter(t) PROVE FoundStillLinked'
  BY <1>8 DEF WalkEnter, Goto, shared
<1>9. ASSUME NEW t \in Threads, SnapshotInvalid(t) PROVE FoundStillLinked'
  BY <1>9 DEF SnapshotInvalid, Goto, Result, shared
<1>10. ASSUME NEW t \in Threads, Scan(t) PROVE FoundStillLinked'
  <2>1. bkt[t] \in Buckets /\ buckets[bkt[t]] \subseteq Entries
    OBVIOUS
  <2>2. \/ /\ ent'[t] \in buckets[bkt[t]] /\ ent'[t].key = req[t].key
            /\ ent'[t] # NULL
        \/ /\ \A e \in buckets[bkt[t]] : e.key # req[t].key
           /\ ent'[t] = NULL
    BY <1>10, <2>1, PtrsAssumption DEF Scan
  <2>3. \A u \in Threads \ {t} : ent'[u] = ent[u] /\ pc'[u] = pc[u]
    BY <1>10 DEF Scan, Goto
  <2> QED
    BY <1>10, <2>2, <2>3 DEF Scan, shared
<1>11. ASSUME NEW t \in Threads, AddUpdate(t) PROVE FoundStillLinked'
  BY <1>11 DEF AddUpdate, Goto, Result, Acting, InCS, KeyedFns, Entries
<1>12. ASSUME NEW t \in Threads, AddNew(t) PROVE FoundStillLinked'
  BY <1>12 DEF AddNew, Goto, Result, Acting, InCS, KeyedFns, Entries
<1>13. ASSUME NEW t \in Threads, AddNewNoMem(t) PROVE FoundStillLinked'
  BY <1>13 DEF AddNewNoMem, Goto, Result, Acting
<1>14. ASSUME NEW t \in Threads, RemoveFound(t) PROVE FoundStillLinked'
  BY <1>14 DEF RemoveFound, Goto, Result, Acting, InCS, KeyedFns, Entries
<1>15. ASSUME NEW t \in Threads, LookupFound(t) PROVE FoundStillLinked'
  BY <1>15 DEF LookupFound, Goto, Result, Acting, shared
<1>16. ASSUME NEW t \in Threads, NotFound(t) PROVE FoundStillLinked'
  BY <1>16 DEF NotFound, Goto, Result, shared
<1>17. ASSUME NEW t \in Threads, CountBucket(t) PROVE FoundStillLinked'
  BY <1>17 DEF CountBucket, Goto, shared
<1>18. ASSUME NEW t \in Threads, SnapshotBucket(t) PROVE FoundStillLinked'
  BY <1>18 DEF SnapshotBucket, Goto, shared
<1>19. ASSUME NEW t \in Threads, SnapshotFull(t) PROVE FoundStillLinked'
  BY <1>19 DEF SnapshotFull, Goto, shared
<1>20. ASSUME NEW t \in Threads, UnlockReturn(t) PROVE FoundStillLinked'
  BY <1>20 DEF UnlockReturn, Goto
<1>21. ASSUME NEW t \in Threads, UnlockNext(t) PROVE FoundStillLinked'
  BY <1>21 DEF UnlockNext, Goto, Result
<1> QED
  BY <1>1, <1>2, <1>3, <1>4, <1>5, <1>6, <1>7, <1>8, <1>9, <1>10, <1>11,
     <1>12, <1>13, <1>14, <1>15, <1>16, <1>17, <1>18, <1>19, <1>20, <1>21 DEF Next, Step

-----------------------------------------------------------------------------
(* Theorems. *)

(* IInv is an invariant of every table. *)
LEMMA Invariance == Spec => []IInv
<1>1. IInv /\ [Next]_vars => IInv'
  BY TypeStep, ControlStep, LockStep, ChainsStep, KeysStep, StringsStep, FoundStep DEF IInv
<1> QED
  BY <1>1, InitInv, PTL DEF Spec

(* Whatever the threads do, all variables keep their types; in particular   *)
(* no walk leaves the bucket array (kv_hash.c:241,276), and no lookup or    *)
(* snapshot copies from a string that is not there.                         *)
THEOREM TypeCorrect == Spec => []TypeOK
BY Invariance, PTL DEF IInv

(* Memory safety of kv_hash_add and kv_hash_remove: every allocated string  *)
(* has exactly one owner and nothing else is owned, so nothing is freed     *)
(* twice, used after it was freed, or leaked.                               *)
THEOREM MemorySafe == Spec => []StringsOwned
BY Invariance, PTL DEF IInv

(* No key ever has two entries, however many kv_hash_add calls race.        *)
THEOREM KeysUnique == Spec => []OneEntryPerKey
BY Invariance, PTL DEF IInv

(* The pointer that a chain walk leaves in e is valid when it is used.      *)
THEOREM ScanStaysValid == Spec => []FoundStillLinked
BY Invariance, PTL DEF IInv

=============================================================================
