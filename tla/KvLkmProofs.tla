----------------------------- MODULE KvLkmProofs -----------------------------
(***************************************************************************)
(* Machine-checked proofs about KvLkm, for every number of threads, keys,  *)
(* strings, buckets and capacities.                                        *)
(*                                                                         *)
(* A snapshot stays in bounds because the entries it has copied come from  *)
(* chains it has left behind (Copying): no key is copied twice, so the     *)
(* counter is the number of entries.                                       *)
(***************************************************************************)
EXTENDS KvLkm, FiniteSetTheorems, TLAPS

(* What the program counter of t says about its call. *)
Control(t) ==
  /\ pc[t] # "idle" => call[t] \in Calls(t)
  /\ pc[t] \in {"lookup", "add"} => call[t].cmd \in {"INSERT", "UPDATE"}
  /\ pc[t] = "get" => call[t].cmd = "GET"
  /\ pc[t] = "remove" => call[t].cmd = "DELETE"
  /\ pc[t] = "count" => call[t].cmd \in {"COUNT", "SNAPSHOT"}
  /\ pc[t] \in {"verify", "copy"} => call[t].cmd = "SNAPSHOT"
  /\ pc[t] \notin {"copyout", "done"} => reply[t] = NULL
  /\ pc[t] \notin {"copy", "copyout", "done"} => out[t] = {}

ControlOK == \A t \in Threads : Control(t)

(* The entries that t has copied: as many as it has counted, no more than   *)
(* there is room for, and all from the chains before the next one.          *)
Copying(t) ==
  /\ IsFiniteSet(out[t])
  /\ pc[t] \in {"copy", "copyout"} /\ call[t].cmd = "SNAPSHOT" =>
       /\ cnt[t] = Cardinality(out[t])
       /\ cnt[t] <= cap[t]
       /\ cap[t] = call[t].capacity
  /\ pc[t] = "copy" => \A e \in out[t] : kv_bucket(e.key) < bkt[t]

CopyingOK == \A t \in Threads : Copying(t)

IInv == TypeOK /\ ControlOK /\ CopyingOK

-----------------------------------------------------------------------------
(* Facts about single definitions. *)

(* A call has the arguments of its command. *)
LEMMA CallShape ==
  ASSUME NEW t \in Threads, NEW c \in Calls(t)
  PROVE  /\ c.cmd \in {"INSERT", "UPDATE", "GET", "DELETE", "COUNT", "OTHER", "SNAPSHOT"}
         /\ c.cmd \in {"INSERT", "UPDATE", "GET", "DELETE"} => c.key \in KeysOf[t] /\ c.key \in Keys
         /\ c.cmd \in {"INSERT", "UPDATE"} => c.value \in Values
         /\ c.cmd = "SNAPSHOT" => c.capacity \in Capacities /\ c.capacity \in Nat
BY KeysOfAssumption, CapacitiesAssumption DEF Calls

(* A chain is finite, and so is a part of it. *)
LEMMA ChainFinite ==
  ASSUME NEW b, NEW S \in SUBSET Chain(b)
  PROVE  IsFiniteSet(S) /\ Cardinality(S) \in Nat
<1>1. S \in SUBSET Keys
  BY DEF Chain
<1> QED
  BY <1>1, KeysFiniteAssumption, FS_Subset, FS_CardinalityType

(* As many entries are copied as there are keys, and they are well typed. *)
LEMMA CopiedSize ==
  ASSUME TypeOK, NEW b, NEW S \in SUBSET Chain(b)
  PROVE  /\ Copied(S) \subseteq [key : Keys, value : Values]
         /\ \A e \in Copied(S) : kv_bucket(e.key) = b
         /\ IsFiniteSet(Copied(S))
         /\ Cardinality(Copied(S)) = Cardinality(S)
<1>1. \A k \in S : k \in Keys /\ kv_bucket(k) = b /\ Strscpy[map[k]] \in Values
  BY StrscpyAssumption DEF Chain, TypeOK
<1> DEFINE f == [k \in S |-> [key |-> k, value |-> Strscpy[map[k]]]]
<1>2. f \in Bijection(S, Copied(S))
  BY DEF Bijection, Injection, Surjection, IsInjective, Copied
<1>3. ExistsBijection(S, Copied(S))
  BY <1>2 DEF ExistsBijection
<1>4. IsFiniteSet(Copied(S)) /\ Cardinality(Copied(S)) = Cardinality(S)
  BY <1>3, ChainFinite, FS_Bijection
<1> QED
  BY <1>1, <1>4 DEF Copied

-----------------------------------------------------------------------------
(* The inductive invariant. *)

(* The empty store satisfies the invariant. *)
LEMMA InitInv == Init => IInv
<1> SUFFICES ASSUME Init PROVE IInv
  OBVIOUS
<1>1. TypeOK
  BY NumBucketsAssumption DEF Init, TypeOK, Labels
<1>2. ControlOK
  BY DEF Init, ControlOK, Control
<1>3. CopyingOK
  BY FS_EmptySet DEF Init, CopyingOK, Copying
<1> QED
  BY <1>1, <1>2, <1>3 DEF IInv

(* Every step keeps the types. *)
LEMMA TypeStep == IInv /\ [Next]_vars => TypeOK'
<1> SUFFICES ASSUME IInv, [Next]_vars PROVE TypeOK'
  OBVIOUS
<1> USE NumBucketsAssumption DEF IInv, TypeOK, ControlOK, Control, Labels, Replies, walk,
    ENOMEM, EFAULT, EINVAL
<1>1. CASE UNCHANGED vars
  BY <1>1 DEF vars
<1>2. ASSUME NEW t \in Threads, NEW c \in Calls(t), Ioctl(t, c) PROVE TypeOK'
  BY <1>2, CallShape DEF Ioctl, Goto
<1>3. ASSUME NEW t \in Threads, Dispatch(t) PROVE TypeOK'
  BY <1>3, CallShape DEF Dispatch, Goto
<1>4. ASSUME NEW t \in Threads, DispatchError(t) PROVE TypeOK'
  BY <1>4, CallShape DEF DispatchError, Leave, Goto
<1>5. ASSUME NEW t \in Threads, CopyOut(t) PROVE TypeOK'
  BY <1>5, CallShape DEF CopyOut, Leave, Goto
<1>6. ASSUME NEW t \in Threads, InsertLookup(t) PROVE TypeOK'
  BY <1>6, CallShape DEF InsertLookup, At, Reply, Goto
<1>7. ASSUME NEW t \in Threads, UpdateLookup(t) PROVE TypeOK'
  BY <1>7, CallShape DEF UpdateLookup, At, Reply, Goto
<1>8. ASSUME NEW t \in Threads, Add(t) PROVE TypeOK'
  BY <1>8, CallShape DEF Add, Reply, Goto
<1>9. ASSUME NEW t \in Threads, AddNoMem(t) PROVE TypeOK'
  BY <1>9, CallShape DEF AddNoMem, Reply, Goto
<1>10. ASSUME NEW t \in Threads, Get(t) PROVE TypeOK'
  BY <1>10, CallShape DEF Get, Reply, Goto, Exists, LookupCode
<1>11. ASSUME NEW t \in Threads, Delete(t) PROVE TypeOK'
  BY <1>11, CallShape DEF Delete, Reply, Goto
<1>12. ASSUME NEW t \in Threads, CountBucket(t) PROVE TypeOK'
  <2>1. Cardinality(Chain(bkt[t])) \in Nat
    BY ChainFinite
  <2> QED
    BY <1>12, <2>1 DEF CountBucket
<1>13. ASSUME NEW t \in Threads, Counted(t) PROVE TypeOK'
  BY <1>13, CallShape DEF Counted, Goto
<1>14. ASSUME NEW t \in Threads, Mismatch(t) PROVE TypeOK'
  BY <1>14, CallShape DEF Mismatch, Leave, Goto
<1>15. ASSUME NEW t \in Threads, SnapshotError(t) PROVE TypeOK'
  BY <1>15, CallShape DEF SnapshotError, Leave, Goto
<1>16. ASSUME NEW t \in Threads, SnapshotAlloc(t) PROVE TypeOK'
  BY <1>16, CallShape DEF SnapshotAlloc, Goto
<1>17. ASSUME NEW t \in Threads, SnapshotBucket(t) PROVE TypeOK'
  <2> DEFINE S == Chain(bkt[t])
  <2>1. Copied(S) \subseteq [key : Keys, value : Values] /\ Cardinality(S) \in Nat
    BY CopiedSize, ChainFinite
  <2>2. /\ out' = [out EXCEPT ![t] = @ \cup Copied(S)]
        /\ cnt' = [cnt EXCEPT ![t] = @ + Cardinality(S)]
        /\ bkt[t] < NumBuckets /\ bkt' = [bkt EXCEPT ![t] = @ + 1]
        /\ UNCHANGED <<map, pc, call, reply, cap, ret>>
    BY <1>17 DEF SnapshotBucket
  <2> HIDE DEF S
  <2> QED
    BY <2>1, <2>2
<1>18. ASSUME NEW t \in Threads, SnapshotFull(t) PROVE TypeOK'
  <2>1. PICK S \in SUBSET Chain(bkt[t]) : out' = [out EXCEPT ![t] = @ \cup Copied(S)]
    BY <1>18 DEF SnapshotFull
  <2>2. Copied(S) \subseteq [key : Keys, value : Values]
    BY CopiedSize
  <2> QED
    BY <1>18, <2>1, <2>2 DEF SnapshotFull, Goto
<1>19. ASSUME NEW t \in Threads, SnapshotEnd(t) PROVE TypeOK'
  BY <1>19, CallShape DEF SnapshotEnd, Goto
<1>20. ASSUME NEW t \in Threads, Return(t) PROVE TypeOK'
  BY <1>20, CallShape DEF Return, Goto
<1> QED
  BY <1>1, <1>2, <1>3, <1>4, <1>5, <1>6, <1>7, <1>8, <1>9, <1>10,
     <1>11, <1>12, <1>13, <1>14, <1>15, <1>16, <1>17, <1>18, <1>19, <1>20
  DEF Next, Step

(* Every step keeps what the program counter says. *)
LEMMA ControlStep == IInv /\ [Next]_vars => ControlOK'
<1> SUFFICES ASSUME IInv, [Next]_vars PROVE ControlOK'
  OBVIOUS
<1> USE DEF IInv, TypeOK, ControlOK, Control, Labels, walk
<1>1. CASE UNCHANGED vars
  BY <1>1 DEF vars
<1>2. ASSUME NEW t \in Threads, NEW c \in Calls(t), Ioctl(t, c) PROVE ControlOK'
  BY <1>2, CallShape DEF Ioctl, Goto
<1>3. ASSUME NEW t \in Threads, Dispatch(t) PROVE ControlOK'
  BY <1>3, CallShape DEF Dispatch, Goto
<1>4. ASSUME NEW t \in Threads, DispatchError(t) PROVE ControlOK'
  BY <1>4, CallShape DEF DispatchError, Leave, Goto
<1>5. ASSUME NEW t \in Threads, CopyOut(t) PROVE ControlOK'
  BY <1>5, CallShape DEF CopyOut, Leave, Goto
<1>6. ASSUME NEW t \in Threads, InsertLookup(t) PROVE ControlOK'
  BY <1>6, CallShape DEF InsertLookup, At, Reply, Goto
<1>7. ASSUME NEW t \in Threads, UpdateLookup(t) PROVE ControlOK'
  BY <1>7, CallShape DEF UpdateLookup, At, Reply, Goto
<1>8. ASSUME NEW t \in Threads, Add(t) PROVE ControlOK'
  BY <1>8, CallShape DEF Add, Reply, Goto
<1>9. ASSUME NEW t \in Threads, AddNoMem(t) PROVE ControlOK'
  BY <1>9, CallShape DEF AddNoMem, Reply, Goto
<1>10. ASSUME NEW t \in Threads, Get(t) PROVE ControlOK'
  BY <1>10, CallShape DEF Get, Reply, Goto, Exists, LookupCode
<1>11. ASSUME NEW t \in Threads, Delete(t) PROVE ControlOK'
  BY <1>11, CallShape DEF Delete, Reply, Goto
<1>12. ASSUME NEW t \in Threads, CountBucket(t) PROVE ControlOK'
  BY <1>12, CallShape DEF CountBucket
<1>13. ASSUME NEW t \in Threads, Counted(t) PROVE ControlOK'
  BY <1>13, CallShape DEF Counted, Goto
<1>14. ASSUME NEW t \in Threads, Mismatch(t) PROVE ControlOK'
  BY <1>14, CallShape DEF Mismatch, Leave, Goto
<1>15. ASSUME NEW t \in Threads, SnapshotError(t) PROVE ControlOK'
  BY <1>15, CallShape DEF SnapshotError, Leave, Goto
<1>16. ASSUME NEW t \in Threads, SnapshotAlloc(t) PROVE ControlOK'
  BY <1>16, CallShape DEF SnapshotAlloc, Goto
<1>17. ASSUME NEW t \in Threads, SnapshotBucket(t) PROVE ControlOK'
  BY <1>17, CallShape DEF SnapshotBucket
<1>18. ASSUME NEW t \in Threads, SnapshotFull(t) PROVE ControlOK'
  BY <1>18, CallShape DEF SnapshotFull, Goto
<1>19. ASSUME NEW t \in Threads, SnapshotEnd(t) PROVE ControlOK'
  BY <1>19, CallShape DEF SnapshotEnd, Goto
<1>20. ASSUME NEW t \in Threads, Return(t) PROVE ControlOK'
  BY <1>20, CallShape DEF Return, Goto
<1> QED
  BY <1>1, <1>2, <1>3, <1>4, <1>5, <1>6, <1>7, <1>8, <1>9, <1>10,
     <1>11, <1>12, <1>13, <1>14, <1>15, <1>16, <1>17, <1>18, <1>19, <1>20
  DEF Next, Step

(* A set of copied entries grows by those of one more chain, all of them or *)
(* the part S of them: no entry is there already.                           *)
LEMMA CopiedMore ==
  ASSUME IInv, NEW t \in Threads, pc[t] = "copy", bkt[t] < NumBuckets,
         NEW S \in SUBSET Chain(bkt[t]), out' = [out EXCEPT ![t] = @ \cup Copied(S)]
  PROVE  /\ IsFiniteSet(out'[t])
         /\ Cardinality(out'[t]) = cnt[t] + Cardinality(S)
         /\ \A e \in out'[t] : kv_bucket(e.key) < bkt[t] + 1
<1>1. /\ IsFiniteSet(out[t]) /\ Cardinality(out[t]) = cnt[t]
      /\ \A e \in out[t] : kv_bucket(e.key) < bkt[t]
  BY DEF IInv, ControlOK, Control, CopyingOK, Copying
<1>2. /\ IsFiniteSet(Copied(S)) /\ Cardinality(Copied(S)) = Cardinality(S)
      /\ \A e \in Copied(S) : kv_bucket(e.key) = bkt[t]
  BY CopiedSize DEF IInv
<1>3. out'[t] = out[t] \cup Copied(S) /\ bkt[t] \in Nat /\ cnt[t] \in Nat
  BY DEF IInv, TypeOK
<1>4. out[t] \cap Copied(S) = {}
  BY <1>1, <1>2, <1>3
<1>5. IsFiniteSet(out'[t]) /\ Cardinality(out'[t]) = cnt[t] + Cardinality(S)
  <2>1. /\ IsFiniteSet(out[t] \cup Copied(S))
        /\ Cardinality(out[t] \cup Copied(S))
             = Cardinality(out[t]) + Cardinality(Copied(S)) - Cardinality(out[t] \cap Copied(S))
    BY <1>1, <1>2, FS_Union
  <2>2. Cardinality(out[t] \cap Copied(S)) = 0
    BY <1>4, FS_EmptySet
  <2>3. Cardinality(S) \in Nat
    BY ChainFinite
  <2>4. Cardinality(out[t] \cup Copied(S)) = cnt[t] + Cardinality(S)
    BY <1>1, <1>2, <1>3, <2>1, <2>2, <2>3
  <2> QED
    BY <1>3, <2>1, <2>4, Zenon
<1>6. ASSUME NEW e \in out'[t] PROVE kv_bucket(e.key) < bkt[t] + 1
  <2>1. CASE e \in out[t]
    <3>1. e.key \in Keys
      BY <2>1 DEF IInv, TypeOK
    <3>2. kv_bucket(e.key) \in Int
      BY <3>1, HashMinAssumption DEF kv_bucket, Buckets
    <3> QED
      BY <1>1, <1>3, <2>1, <3>2
  <2>2. CASE e \in Copied(S)
    BY <1>2, <1>3, <2>2
  <2> QED
    BY <1>3, <2>1, <2>2
<1> QED
  BY <1>5, <1>6

(* Every step keeps what is said of the copied entries. *)
LEMMA CopyingStep == IInv /\ [Next]_vars => CopyingOK'
<1> SUFFICES ASSUME IInv, [Next]_vars PROVE CopyingOK'
  OBVIOUS
<1> USE FS_EmptySet DEF IInv, TypeOK, ControlOK, Control, CopyingOK, Copying, Labels, walk
<1>1. CASE UNCHANGED vars
  BY <1>1 DEF vars
<1>2. ASSUME NEW t \in Threads, NEW c \in Calls(t), Ioctl(t, c) PROVE CopyingOK'
  BY <1>2, CallShape DEF Ioctl, Goto
<1>3. ASSUME NEW t \in Threads, Dispatch(t) PROVE CopyingOK'
  BY <1>3, CallShape DEF Dispatch, Goto
<1>4. ASSUME NEW t \in Threads, DispatchError(t) PROVE CopyingOK'
  BY <1>4, CallShape DEF DispatchError, Leave, Goto
<1>5. ASSUME NEW t \in Threads, CopyOut(t) PROVE CopyingOK'
  BY <1>5, CallShape DEF CopyOut, Leave, Goto
<1>6. ASSUME NEW t \in Threads, InsertLookup(t) PROVE CopyingOK'
  BY <1>6, CallShape DEF InsertLookup, At, Reply, Goto
<1>7. ASSUME NEW t \in Threads, UpdateLookup(t) PROVE CopyingOK'
  BY <1>7, CallShape DEF UpdateLookup, At, Reply, Goto
<1>8. ASSUME NEW t \in Threads, Add(t) PROVE CopyingOK'
  BY <1>8, CallShape DEF Add, Reply, Goto
<1>9. ASSUME NEW t \in Threads, AddNoMem(t) PROVE CopyingOK'
  BY <1>9, CallShape DEF AddNoMem, Reply, Goto
<1>10. ASSUME NEW t \in Threads, Get(t) PROVE CopyingOK'
  BY <1>10, CallShape DEF Get, Reply, Goto, Exists, LookupCode
<1>11. ASSUME NEW t \in Threads, Delete(t) PROVE CopyingOK'
  BY <1>11, CallShape DEF Delete, Reply, Goto
<1>12. ASSUME NEW t \in Threads, CountBucket(t) PROVE CopyingOK'
  BY <1>12, CallShape DEF CountBucket
<1>13. ASSUME NEW t \in Threads, Counted(t) PROVE CopyingOK'
  BY <1>13, CallShape DEF Counted, Goto
<1>14. ASSUME NEW t \in Threads, Mismatch(t) PROVE CopyingOK'
  BY <1>14, CallShape DEF Mismatch, Leave, Goto
<1>15. ASSUME NEW t \in Threads, SnapshotError(t) PROVE CopyingOK'
  BY <1>15, CallShape DEF SnapshotError, Leave, Goto
<1>16. ASSUME NEW t \in Threads, SnapshotAlloc(t) PROVE CopyingOK'
  BY <1>16, CallShape DEF SnapshotAlloc, Goto
<1>17. ASSUME NEW t \in Threads, SnapshotBucket(t) PROVE CopyingOK'
  <2>1. /\ IsFiniteSet(out'[t])
        /\ Cardinality(out'[t]) = cnt[t] + Cardinality(Chain(bkt[t]))
        /\ \A e \in out'[t] : kv_bucket(e.key) < bkt[t] + 1
    BY <1>17, CopiedMore DEF SnapshotBucket
  <2> QED
    BY <1>17, <2>1 DEF SnapshotBucket
<1>18. ASSUME NEW t \in Threads, SnapshotFull(t) PROVE CopyingOK'
  <2>1. PICK S \in SUBSET Chain(bkt[t]) :
          /\ cnt[t] + Cardinality(S) = cap[t]
          /\ out' = [out EXCEPT ![t] = @ \cup Copied(S)]
    BY <1>18 DEF SnapshotFull
  <2>2. IsFiniteSet(out'[t]) /\ Cardinality(out'[t]) = cap[t]
    BY <1>18, <2>1, CopiedMore DEF SnapshotFull
  <2> QED
    BY <1>18, <2>1, <2>2, CallShape DEF SnapshotFull, Goto
<1>19. ASSUME NEW t \in Threads, SnapshotEnd(t) PROVE CopyingOK'
  BY <1>19, CallShape DEF SnapshotEnd, Goto
<1>20. ASSUME NEW t \in Threads, Return(t) PROVE CopyingOK'
  BY <1>20, CallShape DEF Return, Goto
<1> QED
  BY <1>1, <1>2, <1>3, <1>4, <1>5, <1>6, <1>7, <1>8, <1>9, <1>10,
     <1>11, <1>12, <1>13, <1>14, <1>15, <1>16, <1>17, <1>18, <1>19, <1>20
  DEF Next, Step

(* The invariant holds in every reachable state. *)
THEOREM Invariance == Spec => []IInv
<1>1. IInv /\ [Next]_vars => IInv'
  BY TypeStep, ControlStep, CopyingStep DEF IInv
<1> QED
  BY <1>1, InitInv, PTL DEF Spec

(* Every state is well typed. *)
THEOREM TypeCorrect == Spec => []TypeOK
<1>1. IInv => TypeOK
  BY DEF IInv
<1> QED
  BY <1>1, Invariance, PTL

(* A snapshot never writes past the array of the kernel or of user space,   *)
(* whatever other threads add or delete between the count and the copying   *)
(* (kvlkm.c:287-299, kv_hash.c:281).                                        *)
THEOREM SnapshotBounded == Spec => []SnapshotInBounds
<1>1. IInv => SnapshotInBounds
  BY DEF IInv, CopyingOK, Copying, SnapshotInBounds
<1> QED
  BY <1>1, Invariance, PTL

==============================================================================
