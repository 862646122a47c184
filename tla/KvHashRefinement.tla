-------------------------- MODULE KvHashRefinement --------------------------
(***************************************************************************)
(* Proof that KvHash implements KvMap, the atomic map: kv_hash_add,        *)
(* kv_hash_remove and kv_hash_lookup are linearizable for any number of    *)
(* threads, keys and buckets.  The linearization points are the steps in   *)
(* which a keyed call acts on its chain (or fails to allocate); a walk has *)
(* no effect on the map and ends with its last unlock.                     *)
(***************************************************************************)
EXTENDS KvHashProofs

(* The string that an unfinished kv_hash_add owns is the one it was given. *)
Duplicated ==
  \A t \in Threads : newstr[t] # NULL => str[newstr[t]] = req[t].value

RInv == IInv /\ Duplicated

-----------------------------------------------------------------------------

(* kstrdup copies the value, and nobody else writes or frees the copy. *)
LEMMA DuplicatedStep == RInv /\ [Next]_vars => Duplicated'
<1> SUFFICES ASSUME RInv, [Next]_vars, NEW u \in Threads, newstr'[u] # NULL
             PROVE  str'[newstr'[u]] = req'[u].value
  BY DEF Duplicated
<1> USE DEF RInv, IInv, TypeOK, Duplicated
<1>1. CASE UNCHANGED <<buckets, str, newstr>>
  <2>1. req'[u] = req[u]
    <3>1. pc[u] \in {"lock", "scan", "act"}
      BY <1>1 DEF ControlOK, Control
    <3>2. CASE UNCHANGED vars
      BY <3>2 DEF vars
    <3>3. ASSUME NEW t \in Threads, NEW r \in Requests(Caps), Call(t, r)
          PROVE  req'[u] = req[u]
      BY <3>1, <3>3 DEF Call
    <3>4. ASSUME NEW t \in Threads, Return(t) PROVE req'[u] = req[u]
      BY <3>1, <3>4 DEF Return
    <3>5. ASSUME NEW t \in Threads, Lock(t) \/ Step(t) PROVE req'[u] = req[u]
      BY <3>5 DEF Lock, Step, AddDup, AddDupNoMem, KeyedEnter, WalkEnter, SnapshotInvalid,
                  Scan, AddUpdate, AddNew, AddNewNoMem, RemoveFound, LookupFound, NotFound,
                  CountBucket, SnapshotBucket, SnapshotFull, UnlockReturn, UnlockNext
    <3> QED
      BY <3>2, <3>3, <3>4, <3>5 DEF Next
  <2> QED
    BY <1>1, <2>1
<1>2. ASSUME NEW t \in Threads, AddDup(t) PROVE str'[newstr'[u]] = req'[u].value
  <2>1. u # t => str[newstr[u]] # NULL /\ newstr[u] \in Ptrs
    BY <1>2 DEF AddDup, StringsOwned, NoDangling
  <2> QED
    BY <1>2, <2>1 DEF AddDup
<1>3. ASSUME NEW t \in Threads, AddUpdate(t) PROVE str'[newstr'[u]] = req'[u].value
  BY <1>3, ActingTypes DEF AddUpdate, Acting, StringsOwned, NoSharing
<1>4. ASSUME NEW t \in Threads, AddNew(t) PROVE str'[newstr'[u]] = req'[u].value
  BY <1>4 DEF AddNew
<1>5. ASSUME NEW t \in Threads, AddNewNoMem(t) PROVE str'[newstr'[u]] = req'[u].value
  BY <1>5 DEF AddNewNoMem, StringsOwned, NoSharing
<1>6. ASSUME NEW t \in Threads, RemoveFound(t) PROVE str'[newstr'[u]] = req'[u].value
  BY <1>6, ActingTypes DEF RemoveFound, Acting, StringsOwned, NoSharing
<1> QED
  BY <1>1, <1>2, <1>3, <1>4, <1>5, <1>6, TableWriters

(* The invariant of the refinement proof holds in every reachable state. *)
LEMMA RInvariance == Spec => []RInv
<1>1. Init => RInv
  BY InitInv DEF RInv, Duplicated, Init
<1>2. RInv /\ [Next]_vars => RInv'
  BY DuplicatedStep, TypeStep, ControlStep, LockStep, ChainsStep, KeysStep, StringsStep,
     FoundStep DEF RInv, IInv
<1> QED
  BY <1>1, <1>2, PTL DEF Spec

-----------------------------------------------------------------------------
(* The map that a table represents. *)

(* If only e has key k, it is the entry that is chosen for k. *)
LEMMA ChooseEntry ==
  ASSUME NEW B, NEW k, NEW e \in B, e.key = k, \A f \in B : f.key = k => f = e
  PROVE  (CHOOSE f \in B : f.key = k) = e
OBVIOUS

(* An entry determines the map at its key, an absent key has none. *)
LEMMA MapAt ==
  ASSUME OneEntryPerKey, NEW k \in Keys
  PROVE  /\ \A e \in buckets[kv_bucket(k)] : e.key = k => MapOf[k] = str[e.value]
         /\ (\A e \in buckets[kv_bucket(k)] : e.key # k) => MapOf[k] = NULL
<1>1. ASSUME NEW e \in buckets[kv_bucket(k)], e.key = k PROVE MapOf[k] = str[e.value]
  <2>1. \A f \in buckets[kv_bucket(k)] : f.key = k => f = e
    BY <1>1, BucketTypes DEF OneEntryPerKey
  <2>2. EntryOf(k) = e
    BY <1>1, <2>1, ChooseEntry DEF EntryOf
  <2> QED
    BY <1>1, <2>2 DEF MapOf
<1>2. ASSUME \A e \in buckets[kv_bucket(k)] : e.key # k PROVE MapOf[k] = NULL
  BY <1>2 DEF MapOf
<1> QED
  BY <1>1, <1>2

(* The same in the next state. *)
LEMMA MapAtNext ==
  ASSUME OneEntryPerKey', NEW k \in Keys
  PROVE  /\ \A e \in buckets'[kv_bucket(k)] : e.key = k => MapOf'[k] = str'[e.value]
         /\ (\A e \in buckets'[kv_bucket(k)] : e.key # k) => MapOf'[k] = NULL
<1>0. kv_bucket(k)' = kv_bucket(k)
  BY DEF kv_bucket
<1>1. ASSUME NEW e \in buckets'[kv_bucket(k)], e.key = k PROVE MapOf'[k] = str'[e.value]
  <2>1. \A f \in buckets'[kv_bucket(k)] : f.key = k => f = e
    BY <1>1, BucketTypes DEF OneEntryPerKey
  <2>2. EntryOf(k)' = e
    BY <1>0, <1>1, <2>1, ChooseEntry DEF EntryOf
  <2> QED
    BY <1>0, <1>1, <2>2 DEF MapOf
<1>2. ASSUME \A e \in buckets'[kv_bucket(k)] : e.key # k PROVE MapOf'[k] = NULL
  BY <1>0, <1>2 DEF MapOf
<1> QED
  BY <1>1, <1>2

(* The map is a function on Keys, before and after a step. *)
LEMMA MapDomain == MapOf = [k \in Keys |-> MapOf[k]] /\ MapOf' = [k \in Keys |-> MapOf'[k]]
BY DEF MapOf

(* kstrdup does not change the map: its address was in no chain. *)
LEMMA AddDupKeepsMap ==
  ASSUME IInv, IInv', NEW t \in Threads, AddDup(t)
  PROVE  MapOf' = MapOf
<1> SUFFICES ASSUME NEW k \in Keys PROVE MapOf'[k] = MapOf[k]
  BY MapDomain, Zenon
<1> USE DEF IInv, TypeOK
<1>1. \A e \in buckets[kv_bucket(k)] : str'[e.value] = str[e.value]
  BY BucketTypes DEF AddDup, StringsOwned, NoDangling, Entries
<1> QED
  BY <1>1, MapAt, MapAtNext DEF AddDup

(* Linking a string for a key sets the map there. *)
LEMMA AddSetsMap ==
  ASSUME RInv, IInv', NEW t \in Threads, AddUpdate(t) \/ AddNew(t)
  PROVE  MapOf' = [MapOf EXCEPT ![req[t].key] = req[t].value]
<1> SUFFICES ASSUME NEW k \in Keys
             PROVE  MapOf'[k] = IF k = req[t].key THEN req[t].value ELSE MapOf[k]
  BY MapDomain
<1> USE DEF RInv, IInv, TypeOK
<1> DEFINE b == bkt[t]  new == [key |-> req[t].key, value |-> newstr[t]]
<1>1. /\ b \in Buckets /\ b = kv_bucket(req[t].key)
      /\ req[t].key \in Keys /\ newstr[t] \in Ptrs
      /\ str[newstr[t]] = req[t].value
  BY ActingTypes DEF AddUpdate, AddNew, Acting, Duplicated
<1>2. /\ new \in buckets'[b] /\ str'[newstr[t]] = req[t].value
      /\ \A c \in Buckets : /\ \A e \in buckets'[c] : e \in buckets[c] \/ e = new
                            /\ \A e \in buckets[c] : \/ e \in buckets'[c]
                                                     \/ e.key = req[t].key
  <2>1. CASE AddUpdate(t)
    <3>1. ent[t] \in buckets[b] /\ ent[t].key = req[t].key /\ ent[t].value # newstr[t]
      BY <1>1, <2>1, ActingTypes DEF AddUpdate, Acting, StringsOwned, NoSharing
    <3>2. buckets' = [buckets EXCEPT ![b] = (@ \ {ent[t]}) \cup {new}]
      BY <2>1, <3>1 DEF AddUpdate
    <3>3. str'[newstr[t]] = str[newstr[t]]
      BY <1>1, <2>1, <3>1 DEF AddUpdate
    <3> HIDE DEF new
    <3> QED
      BY <1>1, <3>1, <3>2, <3>3
  <2>2. CASE AddNew(t)
    <3>1. buckets' = [buckets EXCEPT ![b] = @ \cup {new}] /\ UNCHANGED str
      BY <2>2 DEF AddNew
    <3> HIDE DEF new
    <3> QED
      BY <1>1, <3>1
  <2> QED
    BY <2>1, <2>2
<1>3. CASE k = req[t].key
  BY <1>1, <1>2, <1>3, MapAtNext
<1>4. CASE k # req[t].key
  <2>1. \A e : e.key = k => (e \in buckets'[kv_bucket(k)] <=> e \in buckets[kv_bucket(k)])
    BY <1>2, <1>4, BucketTypes
  <2>2. \A e \in buckets[kv_bucket(k)] : e.key = k => str'[e.value] = str[e.value]
    BY <1>1, <1>4, BucketTypes, ActingTypes
    DEF AddUpdate, AddNew, Acting, StringsOwned, NoSharing, Entries
  <2> QED
    <3>1. CASE \E e \in buckets[kv_bucket(k)] : e.key = k
      BY <1>4, <2>1, <2>2, <3>1, MapAt, MapAtNext
    <3>2. CASE \A e \in buckets[kv_bucket(k)] : e.key # k
      BY <1>4, <2>1, <3>2, MapAt, MapAtNext
    <3> QED
      BY <3>1, <3>2
<1> QED
  BY <1>3, <1>4

(* Unlinking the entry of a key clears the map there. *)
LEMMA RemoveClearsMap ==
  ASSUME IInv, IInv', NEW t \in Threads, RemoveFound(t)
  PROVE  MapOf' = [MapOf EXCEPT ![req[t].key] = NULL]
<1> SUFFICES ASSUME NEW k \in Keys
             PROVE  MapOf'[k] = IF k = req[t].key THEN NULL ELSE MapOf[k]
  BY MapDomain
<1> USE DEF IInv, TypeOK
<1>1. /\ bkt[t] \in Buckets /\ bkt[t] = kv_bucket(req[t].key) /\ req[t].key \in Keys
      /\ ent[t] \in buckets[bkt[t]] /\ ent[t].key = req[t].key
      /\ buckets' = [buckets EXCEPT ![bkt[t]] = @ \ {ent[t]}]
      /\ str' = [str EXCEPT ![ent[t].value] = NULL]
  BY ActingTypes DEF RemoveFound, Acting
<1>2. CASE k = req[t].key
  <2>1. \A e \in buckets'[kv_bucket(k)] : e.key # k
    BY <1>1, <1>2 DEF OneEntryPerKey
  <2> QED
    BY <1>2, <2>1, MapAtNext
<1>3. CASE k # req[t].key
  <2>1. \A e : e.key = k => (e \in buckets'[kv_bucket(k)] <=> e \in buckets[kv_bucket(k)])
    BY <1>1, <1>3, BucketTypes
  <2>2. \A e \in buckets[kv_bucket(k)] : e.key = k => str'[e.value] = str[e.value]
    BY <1>1, <1>3, BucketTypes DEF StringsOwned, NoSharing, Entries
  <2> QED
    <3>1. CASE \E e \in buckets[kv_bucket(k)] : e.key = k
      BY <1>3, <2>1, <2>2, <3>1, MapAt, MapAtNext
    <3>2. CASE \A e \in buckets[kv_bucket(k)] : e.key # k
      BY <1>3, <2>1, <3>2, MapAt, MapAtNext
    <3> QED
      BY <3>1, <3>2
<1> QED
  BY <1>2, <1>3

(* A failed allocation frees a string that no entry has. *)
LEMMA AddNewNoMemKeepsMap ==
  ASSUME IInv, IInv', NEW t \in Threads, AddNewNoMem(t)
  PROVE  MapOf' = MapOf
<1> SUFFICES ASSUME NEW k \in Keys PROVE MapOf'[k] = MapOf[k]
  BY MapDomain, Zenon
<1> USE DEF IInv, TypeOK
<1>1. \A e \in buckets[kv_bucket(k)] : str'[e.value] = str[e.value]
  BY BucketTypes DEF AddNewNoMem, StringsOwned, NoSharing, Entries
<1> QED
  BY <1>1, MapAt, MapAtNext DEF AddNewNoMem

(* A step that leaves chains and strings alone leaves the map alone. *)
LEMMA MapUntouched ==
  ASSUME UNCHANGED <<buckets, str>>
  PROVE  MapOf' = MapOf
BY DEF MapOf, EntryOf

(* The map at the key of an acting thread is what its scan has found. *)
LEMMA MapAtScan ==
  ASSUME IInv, NEW t \in Threads, pc[t] = "act"
  PROVE  /\ ent[t] # NULL => MapOf[req[t].key] = str[ent[t].value] /\ MapOf[req[t].key] \in Values
         /\ ent[t] = NULL => MapOf[req[t].key] = NULL
<1>1. ent[t] # NULL => str[ent[t].value] \in Values
  BY ActingTypes DEF IInv, TypeOK, StringsOwned, NoDangling, Entries
<1> QED
  BY <1>1, ActingTypes, MapAt DEF IInv

-----------------------------------------------------------------------------
(* The phase of a call. *)

PhaseAt(l, fn) ==
  IF l = "idle" THEN "idle"
  ELSE IF l = "done" \/ (l = "leave" /\ fn \in KeyedFns) THEN "effected" ELSE "called"

(* The phase of a call is a function of its label. *)
LEMMA PhaseNow ==
  ASSUME NEW t \in Threads PROVE PhaseOf[t] = PhaseAt(pc[t], req[t].fn)
BY DEF PhaseOf, PhaseAt

(* A step of one thread changes the phase of that thread only. *)
LEMMA PhaseStep ==
  ASSUME TypeOK, NEW t \in Threads, NEW l, Goto(t, l), UNCHANGED req
  PROVE  PhaseOf' = [PhaseOf EXCEPT ![t] = PhaseAt(l, req[t].fn)]
BY DEF PhaseOf, PhaseAt, Goto, TypeOK

(* A step that stays in its phase and leaves the map alone is a stutter. *)
LEMMA Stutter ==
  ASSUME TypeOK, NEW t \in Threads, NEW l, Goto(t, l), UNCHANGED <<req, ret, buf>>,
         PhaseAt(l, req[t].fn) = PhaseAt(pc[t], req[t].fn), MapOf' = MapOf
  PROVE  UNCHANGED Map!vars
<1>1. PhaseOf' = PhaseOf
  <2>1. PhaseOf = [u \in Threads |-> PhaseOf[u]]
    BY DEF PhaseOf
  <2>2. PhaseOf' = [PhaseOf EXCEPT ![t] = PhaseOf[t]]
    BY PhaseNow, PhaseStep
  <2> QED
    BY <2>1, <2>2
<1> QED
  BY <1>1 DEF Map!vars

(* The effect of a call, as KvMap sees it. *)
LEMMA EffectStep ==
  ASSUME TypeOK, NEW t \in Threads, NEW l, NEW fn, NEW code,
         Goto(t, l), UNCHANGED req, Result(t, code), req[t].fn = fn,
         PhaseAt(pc[t], fn) = "called", PhaseAt(l, fn) = "effected"
  PROVE  Map!Effect(t, fn, code)
BY PhaseNow, PhaseStep DEF Map!Effect, Result

(* An empty table is an empty map. *)
LEMMA InitRefines == Init => Map!Init
<1> SUFFICES ASSUME Init PROVE Map!Init
  OBVIOUS
<1>1. MapOf = [k \in Keys |-> NULL]
  BY BucketTypes DEF Init, MapOf
<1>2. PhaseOf = [t \in Threads |-> "idle"]
  BY DEF Init, PhaseOf
<1> QED
  BY <1>1, <1>2 DEF Init, Map!Init

(* Every step of the table is a step of the map or a stutter. *)
LEMMA NextRefines == RInv /\ RInv' /\ [Next]_vars => [Map!Next]_(Map!vars)
<1> SUFFICES ASSUME RInv, RInv', [Next]_vars PROVE Map!Next \/ UNCHANGED Map!vars
  OBVIOUS
<1> USE DEF RInv, IInv
<1>1. CASE UNCHANGED vars
  BY <1>1, MapUntouched DEF vars, PhaseOf, Map!vars
<1>2. ASSUME NEW t \in Threads, NEW r \in Requests(Caps), Call(t, r)
      PROVE  Map!Begin(t)
  <2>1. MapOf' = MapOf
    BY <1>2, MapUntouched DEF Call, shared
  <2>2. PhaseOf[t] = "idle" /\ PhaseOf' = [PhaseOf EXCEPT ![t] = "called"]
    BY <1>2 DEF Call, Goto, PhaseOf, TypeOK
  <2>3. \E s \in Map!Requests(Caps) : req' = [req EXCEPT ![t] = s]
    BY <1>2 DEF Call, Map!Requests, Requests
  <2> QED
    BY <1>2, <2>1, <2>2, <2>3 DEF Call, Map!Begin
<1>3. ASSUME NEW t \in Threads, Return(t) PROVE Map!Return(t)
  <2>1. MapOf' = MapOf
    BY <1>3, MapUntouched DEF Return, shared
  <2>2. PhaseOf[t] = "effected" /\ PhaseOf' = [PhaseOf EXCEPT ![t] = "idle"]
    BY <1>3 DEF Return, Goto, PhaseOf, TypeOK
  <2> QED
    BY <1>3, <2>1, <2>2 DEF Return, Result, Map!Return
<1>4. ASSUME NEW t \in Threads, Lock(t) PROVE UNCHANGED Map!vars
  BY <1>4, MapUntouched, Stutter DEF Lock, PhaseAt
<1>5. ASSUME NEW t \in Threads, AddDup(t) PROVE UNCHANGED Map!vars
  BY <1>5, AddDupKeepsMap, Stutter DEF AddDup, PhaseAt
<1>6. ASSUME NEW t \in Threads, AddDupNoMem(t) PROVE Map!DoAddNoMem(t)
  BY <1>6, MapUntouched, EffectStep DEF AddDupNoMem, shared, PhaseAt, Map!DoAddNoMem
<1>7. ASSUME NEW t \in Threads, KeyedEnter(t) PROVE UNCHANGED Map!vars
  BY <1>7, MapUntouched, Stutter DEF KeyedEnter, shared, PhaseAt
<1>8. ASSUME NEW t \in Threads, WalkEnter(t) PROVE UNCHANGED Map!vars
  BY <1>8, MapUntouched, Stutter DEF WalkEnter, shared, PhaseAt
<1>9. ASSUME NEW t \in Threads, SnapshotInvalid(t) PROVE Map!DoSnapshot(t)
  BY <1>9, MapUntouched, EffectStep DEF SnapshotInvalid, shared, PhaseAt, Map!DoSnapshot
<1>10. ASSUME NEW t \in Threads, Scan(t) PROVE UNCHANGED Map!vars
  BY <1>10, MapUntouched, Stutter DEF Scan, shared, PhaseAt
<1>11. ASSUME NEW t \in Threads, AddUpdate(t) \/ AddNew(t) PROVE Map!DoAdd(t)
  <2>1. Map!Effect(t, "add", "OK")
    BY <1>11, EffectStep DEF AddUpdate, AddNew, Acting, PhaseAt, KeyedFns
  <2> QED
    BY <1>11, <2>1, AddSetsMap DEF AddUpdate, AddNew, Map!DoAdd
<1>12. ASSUME NEW t \in Threads, AddNewNoMem(t) PROVE Map!DoAddNoMem(t)
  <2>1. Map!Effect(t, "add", "ENOMEM")
    BY <1>12, EffectStep DEF AddNewNoMem, Acting, PhaseAt, KeyedFns
  <2> QED
    BY <1>12, <2>1, AddNewNoMemKeepsMap DEF AddNewNoMem, Map!DoAddNoMem
<1>13. ASSUME NEW t \in Threads, RemoveFound(t) PROVE Map!DoRemove(t)
  <2>1. Map!Effect(t, "remove", "OK")
    BY <1>13, EffectStep DEF RemoveFound, Acting, PhaseAt, KeyedFns
  <2>2. MapOf[req[t].key] # NULL
    BY <1>13, MapAtScan, NULLAssumption DEF RemoveFound, Acting
  <2> QED
    BY <1>13, <2>1, <2>2, RemoveClearsMap DEF RemoveFound, Map!DoRemove
<1>14. ASSUME NEW t \in Threads, LookupFound(t) PROVE Map!DoLookup(t)
  <2> DEFINE v == str[ent[t].value]
  <2>1. pc[t] = "act" /\ req[t].fn = "lookup" /\ MapOf[req[t].key] = v /\ v # NULL
    BY <1>14, MapAtScan, NULLAssumption DEF LookupFound, Acting
  <2>2. Map!LookupCode(MapOf, req[t].key) = IF Fits(v) THEN "OK" ELSE "ENOSPC"
    BY <2>1 DEF Map!LookupCode, Map!Fits, Fits
  <2>3. MapOf' = MapOf
    BY <1>14, MapUntouched DEF LookupFound, shared
  <2>4. CASE Fits(v)
    <3>1. Map!Effect(t, "lookup", "OK") /\ buf' = [buf EXCEPT ![t] = v]
      BY <1>14, <2>1, <2>4, EffectStep DEF LookupFound, PhaseAt, KeyedFns
    <3> QED
      BY <2>1, <2>2, <2>3, <2>4, <3>1 DEF Map!DoLookup
  <2>5. CASE ~ Fits(v)
    <3>1. Map!Effect(t, "lookup", "ENOSPC") /\ buf' = [buf EXCEPT ![t] = @]
      BY <1>14, <2>1, <2>5, EffectStep DEF LookupFound, PhaseAt, KeyedFns, TypeOK
    <3> QED
      BY <2>1, <2>2, <2>3, <2>5, <3>1 DEF Map!DoLookup
  <2> QED
    BY <2>4, <2>5
<1>15. ASSUME NEW t \in Threads, NotFound(t) PROVE Map!DoRemove(t) \/ Map!DoLookup(t)
  <2>1. MapOf[req[t].key] = NULL /\ MapOf' = MapOf /\ req[t].key \in Keys
    BY <1>15, MapAtScan, MapUntouched, ActingTypes DEF NotFound, shared
  <2>2. CASE req[t].fn = "remove"
    <3>1. Map!Effect(t, "remove", "ENOENT")
      BY <1>15, <2>2, EffectStep DEF NotFound, PhaseAt, KeyedFns
    <3>2. MapOf' = [MapOf EXCEPT ![req[t].key] = NULL]
      BY <2>1, MapDomain
    <3> QED
      BY <1>15, <2>1, <3>1, <3>2 DEF NotFound, Map!DoRemove
  <2>3. CASE req[t].fn = "lookup"
    <3>1. Map!Effect(t, "lookup", "ENOENT")
      BY <1>15, <2>3, EffectStep DEF NotFound, PhaseAt, KeyedFns
    <3>2. Map!LookupCode(MapOf, req[t].key) = "ENOENT" /\ buf' = [buf EXCEPT ![t] = @]
      BY <1>15, <2>1 DEF NotFound, Map!LookupCode, TypeOK
    <3> QED
      BY <2>1, <3>1, <3>2 DEF Map!DoLookup
  <2> QED
    BY <1>15, <2>2, <2>3 DEF NotFound
<1>16. ASSUME NEW t \in Threads, CountBucket(t) PROVE UNCHANGED Map!vars
  BY <1>16, MapUntouched, Stutter DEF CountBucket, shared, PhaseAt
<1>17. ASSUME NEW t \in Threads, SnapshotBucket(t) PROVE UNCHANGED Map!vars
  BY <1>17, MapUntouched, Stutter DEF SnapshotBucket, shared, PhaseAt
<1>18. ASSUME NEW t \in Threads, SnapshotFull(t) PROVE UNCHANGED Map!vars
  BY <1>18, MapUntouched, Stutter DEF SnapshotFull, shared, PhaseAt, KeyedFns
<1>19. ASSUME NEW t \in Threads, UnlockReturn(t)
       PROVE  Map!DoCount(t) \/ Map!DoSnapshot(t) \/ UNCHANGED Map!vars
  <2>1. MapOf' = MapOf
    BY <1>19, MapUntouched DEF UnlockReturn
  <2>2. CASE req[t].fn \in WalkFns
    <3>1. Map!Effect(t, req[t].fn, "OK")
      BY <1>19, <2>2, EffectStep DEF UnlockReturn, Result, PhaseAt, KeyedFns, WalkFns
    <3> QED
      BY <1>19, <2>1, <2>2, <3>1
      DEF UnlockReturn, WalkFns, ControlOK, Control, Map!DoCount, Map!DoSnapshot
  <2>3. CASE req[t].fn \notin WalkFns
    <3>1. req[t].fn \in KeyedFns
      BY <1>19, <2>3, RequestShape DEF UnlockReturn, ControlOK, Control
    <3>2. UNCHANGED ret
      BY <1>19, <2>3 DEF UnlockReturn, TypeOK
    <3> QED
      BY <1>19, <2>1, <3>1, <3>2, Stutter DEF UnlockReturn, PhaseAt
  <2> QED
    BY <2>2, <2>3
<1>20. ASSUME NEW t \in Threads, UnlockNext(t)
       PROVE  Map!DoCount(t) \/ Map!DoSnapshot(t) \/ UNCHANGED Map!vars
  <2>1. MapOf' = MapOf /\ req[t].fn \in WalkFns
    BY <1>20, MapUntouched DEF UnlockNext, ControlOK, Control
  <2>2. CASE bkt[t] + 1 < NumBuckets
    BY <1>20, <2>1, <2>2, Stutter DEF UnlockNext, PhaseAt
  <2>3. CASE ~ (bkt[t] + 1 < NumBuckets)
    <3>1. Map!Effect(t, req[t].fn, "OK")
      BY <1>20, <2>1, <2>3, EffectStep DEF UnlockNext, PhaseAt
    <3> QED
      BY <1>20, <2>1, <3>1
      DEF UnlockNext, WalkFns, ControlOK, Control, Map!DoCount, Map!DoSnapshot
  <2> QED
    BY <2>2, <2>3
<1>21. ASSUME NEW t \in Threads, Step(t) PROVE Map!Next \/ UNCHANGED Map!vars
  BY <1>5, <1>6, <1>7, <1>8, <1>9, <1>10, <1>11, <1>12, <1>13, <1>14, <1>15, <1>16,
     <1>17, <1>18, <1>19, <1>20, <1>21 DEF Step, Map!Next
<1>22. ASSUME NEW t \in Threads, NEW r \in Requests(Caps), Call(t, r) PROVE Map!Next
  BY <1>2, <1>22 DEF Map!Next
<1>23. ASSUME NEW t \in Threads, Return(t) PROVE Map!Next
  BY <1>3, <1>23 DEF Map!Next
<1> QED
  BY <1>1, <1>4, <1>21, <1>22, <1>23 DEF Next

(* kv_hash_add, kv_hash_remove and kv_hash_lookup are linearizable: for all *)
(* constants, every behaviour of the locked chains is, seen through MapOf   *)
(* and PhaseOf, a behaviour of the atomic map with the same results.        *)
THEOREM Linearizable == Spec => ImplementsMap
<1>1. RInv /\ [Next]_vars /\ RInv' => [Map!Next]_(Map!vars)
  BY NextRefines
<1> QED
  BY <1>1, InitRefines, RInvariance, PTL DEF Spec, ImplementsMap, Map!Spec

=============================================================================
